---- MODULE Spec2Model ----
(***************************************************************************)
(* State-machine model of the simulation core of solisora                   *)
(* (src/src/sim/mod.rs): Sim::new, Sim::update and the per-ship goal         *)
(* state machine.                                                            *)
(*                                                                           *)
(* Conventions.                                                              *)
(*  - A Rust Vec is a function with domain 0..len-1, so every index of the   *)
(*    model (body index, ship index, Hunt.prey, kill-list entry) is the      *)
(*    index of the source.                                                   *)
(*  - f32 positions are points of the integer lattice; a length of 1.0 is    *)
(*    Unit lattice steps.  A ship speed is a multiple of 1/SpeedDen.         *)
(*    Angles are multiples of a quarter turn (TAU = 4), for which cos and    *)
(*    sin are exact.  Distances are compared by their squares.               *)
(*  - A panic (unwrap on None, index out of bounds, panic!()) moves the      *)
(*    machine to pc = "panic"; `panic` records the place.                    *)
(*  - Every draw from the generators (prng, thread_rng) is a                 *)
(*    nondeterministic choice.                                               *)
(*  - `id`, `next_id`, `raided`, `removed`, `spawned`, `phases`, `old`,      *)
(*    `last`, `complete`, `fallback` and `delivered` are history variables:  *)
(*    they give                                                              *)
(*    every ship a permanent identity and record what the last step and the  *)
(*    current tick did.  No action reads them.                               *)
(***************************************************************************)
EXTENDS Integers, Sequences, FiniteSets, TLC

VARIABLES
    config,      \* Sim::config
    system,      \* Sim::system : Vec<Planet>
    ships,       \* Sim::ships  : Vec<Ship>
    killed,      \* Sim::killed : Vec<usize>
    pc,          \* position inside Sim::new / Sim::update
    ship_index,  \* loop variable of the per-ship pass
    pass_len,    \* upper end of the range 0..self.ships.len() of the pass
    panic,       \* "" or the place of the panic
    tick,        \* number of Sim::update calls started
    next_id,     \* history: next fresh ship identity
    raided,      \* history: identities pushed to the kill list in this tick
    removed,     \* history: identities removed from the registry in this tick
    spawned,     \* history: identities appended by the spawn step of this tick
    phases,      \* history: phases of the current update call, in order
    old,         \* history: ships, system and killed before the last step
    last,        \* history: the kind of the last step
    complete,    \* history: ship_objective_complete of the last update_ship
    fallback,    \* history: update_ship_goal has taken its `_` arm
    delivered,   \* history: deliveries at a station, per miner identity
    twin,        \* a second Sim built from the same SimConfig and seed
    call         \* the last call of a helper function: arguments and result

vars == <<config, system, ships, killed, pc, ship_index, pass_len, panic,
          tick, next_id, raided, removed, spawned, phases, old, last,
          complete, fallback, delivered, twin, call>>

\* No second Sim, no call
NoTwin == [system |-> <<>>, ships |-> <<>>]
NoCall == [fn |-> "", args |-> <<>>, result |-> <<>>]

\* The history of one step
Snapshot == [ships |-> ships, system |-> system, killed |-> killed]

Record(name, done, fell) ==
    /\ old' = Snapshot
    /\ last' = name
    /\ complete' = done
    /\ fallback' = (fallback \/ fell)

-----------------------------------------------------------------------------
(* Bounds of the exploration *)

MaxTicks == 10

\* The width of isize in bits: progress counters overflow at 2^(IsizeBits-1).
IsizeBits == 3

\* The helper functions are called on points with coordinates in -Reach..Reach.
Reach == 3

-----------------------------------------------------------------------------
(* Vec helpers *)

VLen(v) == Cardinality(DOMAIN v)

EmptyVec == <<>>

Push(v, e) == [i \in 0..VLen(v) |-> IF i < VLen(v) THEN v[i] ELSE e]

VecRemove(v, k) == [i \in 0..(VLen(v) - 2) |-> IF i < k THEN v[i] ELSE v[i + 1]]

Contains(s, e) == \E i \in 1..Len(s) : s[i] = e

-----------------------------------------------------------------------------
(* Geometry on the lattice *)

Unit == 2
SpeedDen == 2
TAU == 4

Abs(x) == IF x < 0 THEN -x ELSE x

\* isize::MAX and isize::MIN
IsizeMax == 2 ^ (IsizeBits - 1) - 1
IsizeMin == -(2 ^ (IsizeBits - 1))

\* Rust's % on numbers: the result has the sign of the dividend.
Rem(a, b) == IF a >= 0 THEN a % b ELSE -((-a) % b)

\* x * speed for a speed of s/SpeedDen, rounded toward zero.
Scale(x, s) == IF x >= 0 THEN (x * s) \div SpeedDen ELSE -(((-x) * s) \div SpeedDen)

Wrap(k) == k % TAU

Cos(k) == CASE Wrap(k) = 0 -> 1 [] Wrap(k) = 1 -> 0 [] Wrap(k) = 2 -> -1 [] OTHER -> 0
Sin(k) == CASE Wrap(k) = 0 -> 0 [] Wrap(k) = 1 -> 1 [] Wrap(k) = 2 -> 0 [] OTHER -> -1

Dist2(p, q) == (p[1] - q[1]) * (p[1] - q[1]) + (p[2] - q[2]) * (p[2] - q[2])

\* Rad::atan2(dx, dy).0 + PI, to the nearest quarter turn.
Heading(dx, dy) ==
    IF Abs(dy) >= Abs(dx)
    THEN (IF dy >= 0 THEN 0 ELSE 2) + 2
    ELSE (IF dx > 0 THEN 1 ELSE -1) + 2

-----------------------------------------------------------------------------
(* Configuration.  SimConfig is a plain record of values; the exploration   *)
(* uses a configuration scaled down from the defaults so that a mining       *)
(* trip, a harvest and a raid each take a few ticks.  Lengths are in         *)
(* lattice steps, ship_speed in units of 1/SpeedDen, a Range lo..hi is the   *)
(* set lo..hi-1, and a probability is "strictly between 0 and 1".            *)

SmallConfig ==
    [ ship_speed        |-> 1,
      ship_acceleration |-> 2,
      ship_cost         |-> 1,
      miner_count       |-> 5,
      harvest_duration  |-> 0,
      harvest_variance  |-> 0..0,
      pirate_count      |-> 2,
      pirate_territory  |-> 4,
      raid_range        |-> 5,
      raid_duration     |-> 0,
      raid_variance     |-> 0..1 ]

\* A configuration without trade: one miner, no pirate, and a ship cost
\* that no stock reaches.
LoneMinerConfig ==
    [SmallConfig EXCEPT !.miner_count = 1, !.pirate_count = 0, !.ship_cost = 20]

Configs == {SmallConfig, LoneMinerConfig}

-----------------------------------------------------------------------------
(* Bodies *)

NoOrbit == [some |-> FALSE, parent_index |-> 0, dist |-> 0, speed |-> 0,
            ccw |-> FALSE, angle |-> 0]

\* Orbit::new
OrbitNew(parent_index, dist, speed, ccw, angle) ==
    [some |-> TRUE, parent_index |-> parent_index, dist |-> dist,
     speed |-> speed, ccw |-> ccw, angle |-> angle]

\* Planet::new
PlanetNew(radius) ==
    [pos |-> <<0, 0>>, rad |-> radius, orbit |-> NoOrbit, feat |-> "None",
     stock |-> 0, moon_indices |-> EmptyVec]

SunRad == 3
PlRad == 1
OrbitGap == 4

\* `if system.len() < 4 { panic!() }`: the smallest system Sim::new accepts.
\* The exploration runs on systems of this size.
MinBodies == 4

\* The outcome of the planet loop of Sim::new: a sun and n - 1 planets
\* around it, each further out than the one before.
Skeleton(n, ccw) ==
    [i \in 0..(n - 1) |->
        IF i = 0
        THEN [PlanetNew(SunRad) EXCEPT !.moon_indices = [k \in 0..(n - 2) |-> k + 1]]
        ELSE [PlanetNew(PlRad) EXCEPT !.orbit = OrbitNew(0, OrbitGap * i, 1, ccw[i], 0)]]

\* total_rad(system, 0) for a skeleton
SystemRad == OrbitGap * (VLen(system) - 1) + PlRad

\* filter_system
filter_system(sys, kind) == {i \in DOMAIN sys : sys[i].feat = kind}

station_indices(sys) == filter_system(sys, "Station")

ore_indices(sys) == filter_system(sys, "Ore")

\* The element a descending sort would put first
Farthest(sys, kind, pos) ==
    CHOOSE i \in {k \in DOMAIN sys : sys[k].feat = kind} :
        \A j \in {k \in DOMAIN sys : sys[k].feat = kind} :
            \/ Dist2(pos, sys[i].pos) > Dist2(pos, sys[j].pos)
            \/ Dist2(pos, sys[i].pos) = Dist2(pos, sys[j].pos) /\ i <= j

\* nearest_with_feature(..)[0]: the first element after a stable sort by
\* squared distance of the ascending index list.  Defined when the list is
\* not empty.
Nearest(sys, kind, pos) ==
    CHOOSE i \in filter_system(sys, kind) :
        \A j \in filter_system(sys, kind) :
            \/ Dist2(pos, sys[i].pos) < Dist2(pos, sys[j].pos)
            \/ Dist2(pos, sys[i].pos) = Dist2(pos, sys[j].pos) /\ i <= j

\* A comparison of the whole feature, stock included
MatchesWhole(filter, pl) == pl.feat = filter /\ pl.stock = 0

\* The test of filter_system: `discriminant(filter) == discriminant(feat)`
\* for Some(filter), `pl.feat.is_none()` for None.  The stock of a Station
\* is not part of the discriminant.
Matches(filter, pl) == pl.feat = filter

RECURSIVE FilterLoop(_, _, _, _), SortLoop(_, _, _, _, _)

\* `for (pl_index, pl) in system.iter().enumerate()`, from pl_index on
FilterLoop(sys, filter, pl_index, pl_indices) ==
    IF pl_index >= VLen(sys) THEN pl_indices
    ELSE FilterLoop(sys, filter, pl_index + 1,
                    IF Matches(filter, sys[pl_index])
                    THEN Append(pl_indices, pl_index) ELSE pl_indices)

\* filter_system as the Vec it returns
pl_indices(sys, filter) == FilterLoop(sys, filter, 0, <<>>)

\* `sorted` with x put behind every element that does not compare greater
StableInsert(sys, pos, sorted, x) ==
    LET keep == {k \in 0..Len(sorted) :
                    \A j \in 1..k : Dist2(pos, sys[sorted[j]].pos) <= Dist2(pos, sys[x].pos)}
        at == CHOOSE k \in keep : \A m \in keep : m <= k
    IN  SubSeq(sorted, 1, at) \o <<x>> \o SubSeq(sorted, at + 1, Len(sorted))

\* Vec::sort_by, a stable sort, by squared distance to pos
SortLoop(sys, pos, list, k, sorted) ==
    IF k > Len(list) THEN sorted
    ELSE SortLoop(sys, pos, list, k + 1, StableInsert(sys, pos, sorted, list[k]))

\* nearest_with_feature as the Vec it returns
nearest_with_feature(sys, filter, pos) ==
    SortLoop(sys, pos, pl_indices(sys, filter), 1, <<>>)

-----------------------------------------------------------------------------
(* Ships *)

Visit(target) == [kind |-> "Visit", target |-> target, prey |-> 0, progress |-> 0]
Wait(target, progress) ==
    [kind |-> "Wait", target |-> target, prey |-> 0, progress |-> progress]
Wander == [kind |-> "Wander", target |-> 0, prey |-> 0, progress |-> 0]
Scan == [kind |-> "Scan", target |-> 0, prey |-> 0, progress |-> 0]
Hunt(prey, progress) ==
    [kind |-> "Hunt", target |-> 0, prey |-> prey, progress |-> progress]

Miner == [kind |-> "Miner", cargo |-> FALSE, origin |-> <<0, 0>>]
Trader(cargo) == [kind |-> "Trader", cargo |-> cargo, origin |-> <<0, 0>>]
Pirate(origin) == [kind |-> "Pirate", cargo |-> FALSE, origin |-> origin]

\* Ship::new; `angle` is the draw of thread_rng, `id` the history identity.
ShipNew(job, speed, angle, id) ==
    [pos |-> <<0, 0>>, speed |-> speed, initial_speed |-> speed, angle |-> angle,
     goal |-> Visit(0), job |-> job, id |-> id]

-----------------------------------------------------------------------------
(* Sim::new, the planet loop.  Radii and distances of the generation are    *)
(* whole numbers of a unit of sun_rad / 100; a size multiplier is a number  *)
(* of MultDen-ths.                                                          *)

MultDen == 10

\* The configuration of the generation: a system radius that holds at most
\* three planet subsystems, and one miner to place.
GenConfig ==
    [SmallConfig EXCEPT !.miner_count = 1, !.pirate_count = 0]
        @@ [system_rad |-> 300, sun_rad |-> 100, pl_size_multiplier |-> {1, 2}]

GenConfigs == {GenConfig}

\* The draws of Orbit::new (speed, ccw, angle)
GenOrbits == {[speed |-> 1, ccw |-> FALSE, angle |-> 0]}

Max(a, b) == IF a >= b THEN a ELSE b

RECURSIVE total_rad(_, _), MoonsRad(_, _, _, _)

\* total_rad: the combined radius of the subsystem centred at pl_index
total_rad(sys, pl_index) ==
    MoonsRad(sys, sys[pl_index].moon_indices, 0, sys[pl_index].rad)

\* The loop of total_rad over the moon list, from position k on
MoonsRad(sys, moon_indices, k, pl_rad) ==
    IF k >= VLen(moon_indices) THEN pl_rad
    ELSE LET moon_index == moon_indices[k]
             dist == sys[moon_index].orbit.dist + total_rad(sys, moon_index)
         IN  MoonsRad(sys, moon_indices, k + 1, Max(pl_rad, dist))

padded_total_rad(sys, pl_index, rad) ==
    total_rad(sys, pl_index) + sys[pl_index].rad + rad * 3

\* Vec::truncate that keeps one element too many
TruncateInclusive(v, len) == [i \in 0..len |-> v[i]]

\* Vec::truncate
Truncate(v, len) == [i \in 0..(len - 1) |-> v[i]]

\* pl_index of the running iteration: the planet pushed by it is the one
\* body besides the sun that has no orbit yet.
CurrentPlanet(sys) == CHOOSE i \in DOMAIN sys \ {0} : ~sys[i].orbit.some

\* A body count test that lets a system of three bodies pass
EnoughBodiesThree(sys) == VLen(sys) >= MinBodies - 1

\* The negation of `system.len() < 4`
EnoughBodies(sys) == VLen(sys) >= MinBodies

\* A moon loop that goes on up to eight times the planet's radius
MoonLoopOpenWide(sys, pl_index) == total_rad(sys, pl_index) < sys[pl_index].rad * 8

\* `total_rad(&system, pl_index) < system[pl_index].rad * 5f32`, the first
\* operand of the condition of the `while` that adds moons
MoonLoopOpen(sys, pl_index) == total_rad(sys, pl_index) < sys[pl_index].rad * 5

\* `let pl_index = system.len(); ... system.push(Planet::new(pl_rad));`
GenPlanet ==
    /\ pc = "planet"
    /\ \E mult \in config.pl_size_multiplier :
          system' = Push(system, PlanetNew((config.sun_rad * mult) \div MultDen))
    /\ pc' = "moons"
    /\ Record("planet", FALSE, FALSE)
    /\ UNCHANGED <<twin, call, delivered, config, ships, killed, ship_index, pass_len, panic, tick, next_id,
                   raided, removed, spawned, phases>>

\* One iteration of the `while` that adds moons: its condition held and
\* gen_bool(pl_moon_prob) succeeded.
GenMoon ==
    /\ pc = "moons"
    /\ LET pl_index == CurrentPlanet(system)
           pl_rad == system[pl_index].rad
           moon_index == VLen(system)
       IN  /\ MoonLoopOpen(system, pl_index)
           /\ \E mult \in config.pl_size_multiplier, o \in GenOrbits :
                 LET moon_rad == (pl_rad * mult) \div MultDen
                     dist == padded_total_rad(system, pl_index, moon_rad)
                     moon_orbit == OrbitNew(pl_index, dist, o.speed, o.ccw, o.angle)
                 IN  system' = Push([system EXCEPT ![pl_index].moon_indices =
                                                        Push(@, moon_index)],
                                    [PlanetNew(moon_rad) EXCEPT !.orbit = moon_orbit])
    /\ Record("moon", FALSE, FALSE)
    /\ UNCHANGED <<twin, call, delivered, config, ships, killed, pc, ship_index, pass_len, panic, tick,
                   next_id, raided, removed, spawned, phases>>

\* The subsystem fits: it is attached to the sun and the loop goes on.
GenAccept ==
    /\ pc = "moons"
    /\ LET pl_index == CurrentPlanet(system)
           pl_system_rad == padded_total_rad(system, pl_index, system[pl_index].rad)
           system_rad == total_rad(system, 0)
       IN  /\ ~(system_rad + pl_system_rad > config.system_rad)
           /\ \E o \in GenOrbits :
                 system' = [system EXCEPT
                    ![0].moon_indices = Push(@, pl_index),
                    ![pl_index].orbit = OrbitNew(0, system_rad + pl_system_rad,
                                                 o.speed, o.ccw, o.angle)]
    /\ pc' = "planet"
    /\ Record("accept", FALSE, FALSE)
    /\ UNCHANGED <<twin, call, delivered, config, ships, killed, ship_index, pass_len, panic, tick, next_id,
                   raided, removed, spawned, phases>>

\* The subsystem exceeds config.system_rad: it is removed and the loop ends.
GenReject ==
    /\ pc = "moons"
    /\ LET pl_index == CurrentPlanet(system)
           pl_system_rad == padded_total_rad(system, pl_index, system[pl_index].rad)
           system_rad == total_rad(system, 0)
       IN  /\ system_rad + pl_system_rad > config.system_rad
           /\ system' = Truncate(system, pl_index)
    /\ pc' = "new"
    /\ Record("reject", FALSE, FALSE)
    /\ UNCHANGED <<twin, call, delivered, config, ships, killed, ship_index, pass_len, panic, tick, next_id,
                   raided, removed, spawned, phases>>

\* `if system.len() < 4 { panic!() }`
NewPanic ==
    /\ pc = "new"
    /\ ~EnoughBodies(system)
    /\ pc' = "panic"
    /\ panic' = "bodies"
    /\ Record("new", FALSE, FALSE)
    /\ UNCHANGED <<twin, call, delivered, config, system, ships, killed, ship_index, pass_len, tick, next_id,
                   raided, removed, spawned, phases>>

-----------------------------------------------------------------------------
(* Sim::new after the planet loop *)

\* The three assignments that place the essential features, in the
\* order of the source: the later assignment wins.
EssentialFeatures(n, rand_pl_index) ==
    [i \in 0..(n - 1) |->
        IF i = rand_pl_index THEN "Ore"
        ELSE IF i = n - 1 THEN "Station"
        ELSE IF i = 1 THEN "Station"
        ELSE "None"]

\* The loop that adds features at random: `fill[i]` is "None" when
\* gen_bool fails for body i, else the feature drawn by rand_feature.
\* It skips the sun and never replaces a feature.
NewFeatures(sys, rand_pl_index, fill) ==
    [i \in DOMAIN sys |->
        LET ess == EssentialFeatures(VLen(sys), rand_pl_index)[i]
        IN  [sys[i] EXCEPT !.feat = IF i >= 1 /\ ess = "None" THEN fill[i] ELSE ess]]

MinerStarts == {<<0, 9>>}
PirateOrigins == {<<-2, -4>>, <<4, 0>>}
PirateOffsets == {<<3, 1>>}
PirateAngles == {0}
ShipAngle == 0

\* A pirate that kept the goal Ship::new gives every ship
PirateStartGoalDefault == Visit(0)

\* pirate.goal = ShipGoal::Wander
PirateStartGoal == Wander

\* The targets the miners draw from the ore list.  The miners start at the
\* same point, so the assignments are taken up to a permutation of miners.
MinerTargets(cfg, sys) ==
    {t \in [0..(cfg.miner_count - 1) -> ore_indices(sys)] :
        \A i, j \in 0..(cfg.miner_count - 1) : i <= j => t[i] <= t[j]}

\* The miners and pirates of a new Sim
NewShips(cfg, sys, mpos, mtarget, porigin, poffset, pangle) ==
    [i \in 0..(cfg.miner_count + cfg.pirate_count - 1) |->
        IF i < cfg.miner_count
        THEN [ShipNew(Miner, cfg.ship_speed, ShipAngle, i) EXCEPT
                 !.pos = mpos[i], !.goal = Visit(mtarget[i])]
        ELSE LET k == i - cfg.miner_count
             IN  [ShipNew(Pirate(porigin[k]), cfg.ship_speed, pangle[k], i) EXCEPT
                     !.pos = <<porigin[k][1] + poffset[k][1],
                               porigin[k][2] + poffset[k][2]>>,
                     !.goal = PirateStartGoal]]

AllCw(n) == [i \in 0..(n - 1) |-> FALSE]

Init ==
    /\ config \in Configs
    /\ system = Skeleton(MinBodies, AllCw(MinBodies))
    /\ ships = EmptyVec
    /\ killed = <<>>
    /\ pc = "new"
    /\ ship_index = 0
    /\ pass_len = 0
    /\ panic = ""
    /\ tick = 0
    /\ next_id = 0
    /\ raided = {}
    /\ removed = {}
    /\ spawned = {}
    /\ phases = <<>>
    /\ old = [ships |-> EmptyVec, system |-> EmptyVec, killed |-> <<>>]
    /\ last = "init"
    /\ complete = FALSE
    /\ fallback = FALSE
    /\ delivered = EmptyVec
    /\ twin = NoTwin
    /\ call = NoCall

New ==
    /\ pc = "new"
    /\ EnoughBodies(system)
    /\ \E rand_pl_index \in 2..(VLen(system) - 1),
          fill \in [DOMAIN system -> {"None", "Station", "Ore"}] :
          LET sys == NewFeatures(system, rand_pl_index, fill)
              mi == 0..(config.miner_count - 1)
              pi == 0..(config.pirate_count - 1)
          IN  /\ \A i \in DOMAIN system :
                    (i = 0 \/ EssentialFeatures(VLen(system), rand_pl_index)[i] # "None")
                        => fill[i] = "None"
              /\ system' = sys
              /\ \E mpos \in [mi -> MinerStarts], mtarget \in MinerTargets(config, sys),
                    porigin \in [pi -> PirateOrigins], poffset \in [pi -> PirateOffsets],
                    pangle \in [pi -> PirateAngles] :
                    ships' = NewShips(config, sys, mpos, mtarget, porigin, poffset, pangle)
    /\ next_id' = config.miner_count + config.pirate_count
    /\ delivered' = [i \in 0..(config.miner_count - 1) |-> 0]
    /\ pc' = "idle"
    /\ Record("new", FALSE, FALSE)
    /\ UNCHANGED <<twin, call, config, killed, ship_index, pass_len, panic, tick, raided,
                   removed, spawned, phases>>

\* The state at the head of the planet loop: the system holds the sun.
GenInit ==
    /\ config \in GenConfigs
    /\ system = [i \in {0} |-> PlanetNew(config.sun_rad)]
    /\ ships = EmptyVec
    /\ killed = <<>>
    /\ pc = "planet"
    /\ ship_index = 0
    /\ pass_len = 0
    /\ panic = ""
    /\ tick = 0
    /\ next_id = 0
    /\ raided = {}
    /\ removed = {}
    /\ spawned = {}
    /\ phases = <<>>
    /\ old = [ships |-> EmptyVec, system |-> EmptyVec, killed |-> <<>>]
    /\ last = "init"
    /\ complete = FALSE
    /\ fallback = FALSE
    /\ delivered = EmptyVec
    /\ twin = NoTwin
    /\ call = NoCall

\* Sim::new from the first planet to its return or its panic
GenNext ==
    \/ GenPlanet
    \/ GenMoon
    \/ GenAccept
    \/ GenReject
    \/ NewPanic
    \/ New

GenSpec == GenInit /\ [][GenNext]_vars

\* The head of the planet loop under a configuration of `configs`
LoopHead(configs) ==
    /\ config \in configs
    /\ system = [i \in {0} |-> PlanetNew(config.sun_rad)]
    /\ ships = EmptyVec
    /\ killed = <<>>
    /\ pc = "planet"
    /\ ship_index = 0
    /\ pass_len = 0
    /\ panic = ""
    /\ tick = 0
    /\ next_id = 0
    /\ raided = {}
    /\ removed = {}
    /\ spawned = {}
    /\ phases = <<>>
    /\ old = [ships |-> EmptyVec, system |-> EmptyVec, killed |-> <<>>]
    /\ last = "init"
    /\ complete = FALSE
    /\ fallback = FALSE
    /\ delivered = EmptyVec
    /\ twin = NoTwin
    /\ call = NoCall

\* Configurations of the generation with other radii and multipliers
GenLiveConfigs ==
    {GenConfig,
     [GenConfig EXCEPT !.system_rad = 200, !.sun_rad = 50, !.pl_size_multiplier = {2, 3}],
     [GenConfig EXCEPT !.system_rad = 40, !.sun_rad = 30, !.pl_size_multiplier = {1, 8}]}

GenLiveInit == LoopHead(GenLiveConfigs)

\* The planet loop of Sim::new, up to its `break`
GenLiveNext ==
    \/ GenPlanet
    \/ GenMoon
    \/ GenAccept
    \/ GenReject

\* The loop is sequential code: an iteration that is reached is executed.
GenLiveSpec == GenLiveInit /\ [][GenLiveNext]_vars /\ WF_vars(GenLiveNext)

-----------------------------------------------------------------------------
(* Sim::update, phase 1: update_planet_pos(0) *)

RECURSIVE update_planet_pos(_, _), UpdateMoons(_, _, _)

\* The angular step of one tick, in quarter turns.  The two positive f32
\* scale factors (the radius ratio and the nearer-is-faster correction)
\* are folded into the orbit's own speed.
Offset(sys, orbit) == orbit.speed * (IF orbit.ccw THEN -1 ELSE 1)

\* An orbit written back with its direction reversed
StoreOrbitReversed(pl_orbit, angle) == [pl_orbit EXCEPT !.angle = angle, !.ccw = ~@]

\* `self.system[pl_index].orbit = Some(pl_orbit)`: of the copy taken at the
\* head of the function only the angle has changed.
StoreOrbit(pl_orbit, angle) == [pl_orbit EXCEPT !.angle = angle]

\* A parent position that is always the sun's
ParentPosSun(sys, pl_orbit) == sys[0].pos

\* `let parent_pos = self.system[pl_orbit.parent_index].pos;`: read from
\* the system as the call finds it, after the parent's own update.
ParentPos(sys, pl_orbit) == sys[pl_orbit.parent_index].pos

update_planet_pos(sys, pl_index) ==
    LET pl_orbit == sys[pl_index].orbit
        parent_pos == ParentPos(sys, pl_orbit)
        angle == Rem(pl_orbit.angle + Offset(sys, pl_orbit), TAU)
        moved == IF pl_orbit.some
                 THEN [sys EXCEPT
                         ![pl_index].pos = <<parent_pos[1] + pl_orbit.dist * Cos(angle),
                                             parent_pos[2] + pl_orbit.dist * Sin(angle)>>,
                         ![pl_index].orbit = StoreOrbit(pl_orbit, angle)]
                 ELSE sys
    IN  UpdateMoons(moved, sys[pl_index].moon_indices, 0)

UpdateMoons(sys, moon_indices, k) ==
    IF k >= VLen(moon_indices) THEN sys
    ELSE UpdateMoons(update_planet_pos(sys, moon_indices[k]), moon_indices, k + 1)

UpdatePlanets ==
    /\ pc = "idle"
    /\ tick < MaxTicks
    /\ system' = update_planet_pos(system, 0)
    /\ tick' = tick + 1
    /\ pc' = "spawn"
    /\ phases' = <<"orbit">>
    /\ raided' = {}
    /\ removed' = {}
    /\ spawned' = {}
    /\ Record("orbit", FALSE, FALSE)
    /\ UNCHANGED <<twin, call, delivered, config, ships, killed, ship_index, pass_len, panic, next_id>>

-----------------------------------------------------------------------------
(* Sim::update, phase 2: spawn traders *)

RECURSIVE SpawnFrom(_, _, _, _, _)

\* A spawn test that lets a station spend its whole stock
CanSpawnAtCost(cfg, pl) == pl.feat = "Station" /\ pl.stock >= cfg.ship_cost

\* The spawn test of one station
CanSpawn(cfg, pl) == pl.feat = "Station" /\ pl.stock > cfg.ship_cost

\* The trader a station spawns
SpawnedShip(cfg, sys, pl_index, id) ==
    [ShipNew(Trader(FALSE), cfg.ship_speed, ShipAngle, id) EXCEPT
        !.pos = sys[pl_index].pos, !.goal = Visit(pl_index)]

\* The loop over pl_index in 0..system.len(), from pl_index on
SpawnFrom(cfg, sys, sh, pl_index, id) ==
    IF pl_index >= VLen(sys) THEN [system |-> sys, ships |-> sh, next_id |-> id]
    ELSE IF CanSpawn(cfg, sys[pl_index])
    THEN SpawnFrom(cfg,
                   [sys EXCEPT ![pl_index].stock = @ - cfg.ship_cost],
                   Push(sh, SpawnedShip(cfg, sys, pl_index, id)),
                   pl_index + 1, id + 1)
    ELSE SpawnFrom(cfg, sys, sh, pl_index + 1, id)

\* A pass whose range was fixed before the spawn loop
PassEndBeforeSpawn(before_spawn, after_spawn) == VLen(before_spawn)

\* The end of the range 0..self.ships.len() of the per-ship pass: the
\* length is read after the spawn loop has pushed its traders.
PassEnd(before_spawn, after_spawn) == VLen(after_spawn)

Spawn ==
    /\ pc = "spawn"
    /\ LET r == SpawnFrom(config, system, ships, 0, next_id)
       IN  /\ system' = r.system
           /\ ships' = r.ships
           /\ next_id' = r.next_id
           /\ spawned' = next_id..(r.next_id - 1)
           /\ pass_len' = PassEnd(ships, r.ships)
           /\ pc' = IF PassEnd(ships, r.ships) = 0 THEN "kill" ELSE "ships"
    /\ ship_index' = 0
    /\ phases' = Append(phases, "spawn")
    /\ Record("spawn", FALSE, FALSE)
    /\ UNCHANGED <<twin, call, delivered, config, killed, panic, tick, raided, removed>>

-----------------------------------------------------------------------------
(* Sim::update, phase 3: update_ship *)

\* An arrival test that counts a touching segment
arrivedTouching(ship_pos, old_ship_pos, pl_pos, pl_rad) ==
    LET old_x == old_ship_pos[1] - pl_pos[1]
        old_y == old_ship_pos[2] - pl_pos[2]
        new_x == ship_pos[1] - pl_pos[1]
        new_y == ship_pos[2] - pl_pos[2]
        a == (new_x - old_x) * (new_x - old_x) + (new_y - old_y) * (new_y - old_y)
        b == 2 * (old_x * (new_x - old_x) + old_y * (new_y - old_y))
        c == old_x * old_x + old_y * old_y - pl_rad * pl_rad
        disc == b * b - 4 * a * c
        e == 2 * a + b
        t1 == (b < 0 \/ disc > b * b) /\ (e > 0 /\ disc < e * e)
        t2 == (b < 0 /\ disc < b * b) /\ (e > 0 \/ disc > e * e)
    IN  IF disc < 0 \/ a = 0 THEN FALSE ELSE t1 \/ t2

\* arrived: the segment old_ship_pos -> ship_pos meets the circle of radius
\* pl_rad around pl_pos at a parameter strictly between 0 and 1.  With
\* s = sqrt(disc) > 0 and a > 0, 0 < (-b + s) / 2a < 1 is b < s < 2a + b and
\* 0 < (-b - s) / 2a < 1 is -(2a + b) < s < -b; s is compared by its square.
arrived(ship_pos, old_ship_pos, pl_pos, pl_rad) ==
    LET old_x == old_ship_pos[1] - pl_pos[1]
        old_y == old_ship_pos[2] - pl_pos[2]
        new_x == ship_pos[1] - pl_pos[1]
        new_y == ship_pos[2] - pl_pos[2]
        a == (new_x - old_x) * (new_x - old_x) + (new_y - old_y) * (new_y - old_y)
        b == 2 * (old_x * (new_x - old_x) + old_y * (new_y - old_y))
        c == old_x * old_x + old_y * old_y - pl_rad * pl_rad
        disc == b * b - 4 * a * c
        e == 2 * a + b
        t1 == (b < 0 \/ disc > b * b) /\ (e > 0 /\ disc < e * e)
        t2 == (b < 0 /\ disc < b * b) /\ (e > 0 \/ disc > e * e)
    IN  IF disc <= 0 THEN FALSE ELSE t1 \/ t2

\* update_ship_pos
update_ship_pos(ship, dest_pos) ==
    LET dx == dest_pos[1] - ship.pos[1]
        dy == dest_pos[2] - ship.pos[2]
    IN  [ship EXCEPT !.pos = <<ship.pos[1] + Scale(dx, ship.speed),
                               ship.pos[2] + Scale(dy, ship.speed)>>,
                     !.angle = Heading(dx, dy)]

\* What update_ship leaves behind: the registry, the bodies, the kill
\* list, the place of a panic, and whether update_ship_goal was called
\* and took its `_` arm.
Outcome(sh, sys, kl) ==
    [ships |-> sh, system |-> sys, killed |-> kl, panic |-> "",
     complete |-> FALSE, fallback |-> FALSE]

Panicked(sh, sys, kl, place) == [Outcome(sh, sys, kl) EXCEPT !.panic = place]

\* A look-up that answers 0 for a body without a Station
stockDefault(pl) ==
    [panic |-> FALSE, value |-> IF pl.feat = "Station" THEN pl.stock ELSE 0]

\* stock(pl): the stock of a Station, panic!() for every other body
stock(pl) == [panic |-> pl.feat # "Station", value |-> pl.stock]

\* A stock update that is lost
AddStockLost(sys, pl_index, d) == sys

\* *stock(pl) += d
AddStock(sys, pl_index, d) == [sys EXCEPT ![pl_index].stock = @ + d]

\* A pick-up test that ignores the cargo the trader arrived with
ShouldCarryAnyCargo(target_res, dest_res, cargo) == target_res > dest_res

\* A pick-up test that also takes from a station no richer than the
\* destination
ShouldCarryAtPar(target_res, dest_res, cargo) == target_res >= dest_res /\ ~cargo

\* The pick-up test of a trader: it reads the cargo flag the ship arrived
\* with, not the flag after the deposit.
ShouldCarry(target_res, dest_res, cargo) == target_res > dest_res /\ ~cargo

\* The stations a trader at `target` chooses from
TraderDests(sys, target) == station_indices(sys) \ {target}

\* update_ship_goal, arm (Trader, Visit): `dest` is the station drawn
GoalTraderVisit(sh, sys, kl, i, dest) ==
    LET target == sh[i].goal.target
        cargo == sh[i].job.cargo
    IN  IF cargo /\ stock(sys[target]).panic THEN Panicked(sh, sys, kl, "stock")
        ELSE IF TraderDests(sys, target) = {}
        THEN Panicked([sh EXCEPT ![i].job = Trader(FALSE)],
                      IF cargo THEN AddStock(sys, target, 1) ELSE sys, kl, "choose dest")
        ELSE IF stock(sys[target]).panic THEN Panicked(sh, sys, kl, "stock")
        ELSE
        LET sys1 == IF cargo THEN AddStock(sys, target, 1) ELSE sys
            carry == ShouldCarry(stock(sys1[target]).value, stock(sys1[dest]).value, cargo)
            sys2 == IF carry THEN AddStock(sys1, target, -1) ELSE sys1
        IN  Outcome([sh EXCEPT ![i].job = Trader(carry), ![i].goal = Visit(dest)],
                    sys2, kl)

\* An arm (Miner, Visit) that also credits the body of an Ore arrival
GoalMinerVisitPaidAtOre(sh, sys, kl, i, progress) ==
    LET target == sh[i].goal.target
    IN  CASE sys[target].feat = "None" -> Panicked(sh, sys, kl, "feat")
          [] sys[target].feat = "Station" ->
                Outcome([sh EXCEPT ![i].goal = Visit(Nearest(sys, "Ore", sh[i].pos))],
                        AddStock(sys, target, 1), kl)
          [] OTHER -> Outcome([sh EXCEPT ![i].goal = Wait(target, progress)],
                              AddStock(sys, target, 1), kl)

\* update_ship_goal, arm (Miner, Visit): `progress` is the draw from
\* harvest_variance
GoalMinerVisit(sh, sys, kl, i, progress) ==
    LET target == sh[i].goal.target
    IN  CASE sys[target].feat = "None" -> Panicked(sh, sys, kl, "feat")
          [] sys[target].feat = "Station" ->
                IF ore_indices(sys) = {}
                THEN Panicked(sh, AddStock(sys, target, 1), kl, "ores[0]")
                ELSE Outcome([sh EXCEPT ![i].goal = Visit(Nearest(sys, "Ore", sh[i].pos))],
                             AddStock(sys, target, 1), kl)
          [] OTHER -> Outcome([sh EXCEPT ![i].goal = Wait(target, progress)], sys, kl)

\* update_ship_goal, arm (Miner, Wait)
GoalMinerWait(sh, sys, kl, i) ==
    IF station_indices(sys) = {}
    THEN Panicked(sh, sys, kl, "stations[0]")
    ELSE Outcome([sh EXCEPT ![i].goal = Visit(Nearest(sys, "Station", sh[i].pos))],
                 sys, kl)

\* A scan that takes every near ship, whatever its job
prey_indicesAnyShip(cfg, sh, i) ==
    {t \in DOMAIN sh :
        4 * Dist2(sh[i].pos, sh[t].pos) < cfg.pirate_territory * cfg.pirate_territory}

\* A scan that takes every near trader, with or without cargo
prey_indicesAnyTrader(cfg, sh, i) ==
    {t \in DOMAIN sh :
        /\ sh[t].job.kind = "Trader"
        /\ 4 * Dist2(sh[i].pos, sh[t].pos) < cfg.pirate_territory * cfg.pirate_territory}

\* The candidates of a scan: traders with cargo nearer than half the territory
prey_indices(cfg, sh, i) ==
    {t \in DOMAIN sh :
        /\ sh[t].job.kind = "Trader" /\ sh[t].job.cargo
        /\ 4 * Dist2(sh[i].pos, sh[t].pos) < cfg.pirate_territory * cfg.pirate_territory}

\* update_ship_goal, arm (Pirate, Scan): `prey` is the candidate drawn
\* (-1 when there is none), `progress` the draw from raid_variance
GoalPirateScan(sh, sys, kl, i, prey, progress) ==
    IF prey = -1 THEN Outcome([sh EXCEPT ![i].goal = Wander], sys, kl)
    ELSE Outcome([sh EXCEPT ![i].goal = Hunt(prey, progress)], sys, kl)

\* An arm (Pirate, Hunt) that leaves the prey its cargo
GoalPirateHuntKeepCargo(sh, sys, kl, i) ==
    IF sh[i].goal.prey \notin DOMAIN sh THEN Panicked(sh, sys, kl, "ships[prey]")
    ELSE Outcome([sh EXCEPT ![i].goal = Wander], sys, kl)

\* An arm (Pirate, Hunt) that goes on hunting
GoalPirateHuntStay(sh, sys, kl, i) ==
    IF sh[i].goal.prey \notin DOMAIN sh THEN Panicked(sh, sys, kl, "ships[prey]")
    ELSE Outcome(IF sh[sh[i].goal.prey].job.kind = "Trader"
                 THEN [sh EXCEPT ![sh[i].goal.prey].job = Trader(FALSE)]
                 ELSE sh, sys, kl)

\* An arm (Pirate, Hunt) that takes the prey out of the registry at once
GoalPirateHuntRemove(sh, sys, kl, i) ==
    LET prey == sh[i].goal.prey
    IN  IF prey \notin DOMAIN sh THEN Panicked(sh, sys, kl, "ships[prey]")
        ELSE Outcome(VecRemove([sh EXCEPT ![i].goal = Wander], prey), sys, kl)

\* update_ship_goal, arm (Pirate, Hunt)
GoalPirateHunt(sh, sys, kl, i) ==
    LET prey == sh[i].goal.prey
    IN  IF prey \notin DOMAIN sh THEN Panicked(sh, sys, kl, "ships[prey]")
        ELSE Outcome([(IF sh[prey].job.kind = "Trader"
                       THEN [sh EXCEPT ![prey].job = Trader(FALSE)]
                       ELSE sh) EXCEPT ![i].goal = Wander], sys, kl)

\* The draws of one update_ship
Draws(dest, progress, prey) == [dest |-> dest, progress |-> progress, prey |-> prey]

\* update_ship_goal: the match on (job, goal)
update_ship_goal(sh, sys, kl, i, d) ==
    LET job == sh[i].job.kind
        goal == sh[i].goal.kind
        out == CASE job = "Trader" /\ goal = "Visit" -> GoalTraderVisit(sh, sys, kl, i, d.dest)
                 [] job = "Miner" /\ goal = "Visit" -> GoalMinerVisit(sh, sys, kl, i, d.progress)
                 [] job = "Miner" /\ goal = "Wait" -> GoalMinerWait(sh, sys, kl, i)
                 [] job = "Pirate" /\ goal = "Wander" ->
                        Outcome([sh EXCEPT ![i].goal = Scan], sys, kl)
                 [] job = "Pirate" /\ goal = "Scan" ->
                        GoalPirateScan(sh, sys, kl, i, d.prey, d.progress)
                 [] job = "Pirate" /\ goal = "Hunt" -> GoalPirateHunt(sh, sys, kl, i)
                 [] OTHER -> [Outcome(sh, sys, kl) EXCEPT !.fallback = TRUE]
    IN  [out EXCEPT !.complete = TRUE]

\* An arm Visit that keeps the gained speed on arrival
ShipVisitNoReset(cfg, sh, sys, kl, i, d) ==
    LET pl == sys[sh[i].goal.target]
        moved == [update_ship_pos(sh[i], pl.pos) EXCEPT
                     !.speed = @ * cfg.ship_acceleration]
    IN  IF arrived(moved.pos, sh[i].pos, pl.pos, pl.rad)
        THEN update_ship_goal([sh EXCEPT ![i] = moved], sys, kl, i, d)
        ELSE Outcome([sh EXCEPT ![i] = moved], sys, kl)

\* update_ship, arm Visit
ShipVisit(cfg, sh, sys, kl, i, d) ==
    LET pl == sys[sh[i].goal.target]
        moved == [update_ship_pos(sh[i], pl.pos) EXCEPT
                     !.speed = @ * cfg.ship_acceleration]
    IN  IF arrived(moved.pos, sh[i].pos, pl.pos, pl.rad)
        THEN update_ship_goal([sh EXCEPT ![i] = [moved EXCEPT !.speed = moved.initial_speed]],
                              sys, kl, i, d)
        ELSE Outcome([sh EXCEPT ![i] = moved], sys, kl)

\* update_ship, arm Wait.  `progress + 1` overflows at isize::MAX: a build
\* with overflow checks panics there, a `release` build wraps around.
ShipWait(cfg, sh, sys, kl, i, d, release) ==
    LET g == sh[i].goal
        overflow == g.progress = IsizeMax
        at_target == [sh EXCEPT ![i].pos = sys[g.target].pos]
        docked == [at_target EXCEPT
                      ![i].goal = Wait(g.target,
                                       IF overflow THEN IsizeMin ELSE g.progress + 1)]
    IN  IF overflow /\ ~release THEN Panicked(at_target, sys, kl, "overflow")
        ELSE IF g.progress = cfg.harvest_duration
        THEN update_ship_goal(docked, sys, kl, i, d)
        ELSE Outcome(docked, sys, kl)

\* The step of a wandering pirate inside its territory: `left` is the coin
WanderStep(ship, left) ==
    LET angle == ship.angle + (IF left THEN -1 ELSE 1)
        step == (Unit * ship.speed) \div SpeedDen
    IN  [ship EXCEPT !.angle = angle,
                     !.pos = <<ship.pos[1] + Cos(angle + 1) * step,
                               ship.pos[2] - Sin(angle + 1) * step>>]

OutsideTerritory(cfg, ship) ==
    Dist2(ship.pos, ship.job.origin) > cfg.pirate_territory * cfg.pirate_territory

\* update_ship, arm Wander
ShipWander(cfg, sh, sys, kl, i, d, left) ==
    IF sh[i].job.kind # "Pirate" THEN Outcome(sh, sys, kl)
    ELSE IF OutsideTerritory(cfg, sh[i])
    THEN Outcome([sh EXCEPT ![i] = update_ship_pos(sh[i], sh[i].job.origin)], sys, kl)
    ELSE update_ship_goal([sh EXCEPT ![i] = WanderStep(sh[i], left)], sys, kl, i, d)

\* update_ship, arm Scan
ShipScan(cfg, sh, sys, kl, i, d) == update_ship_goal(sh, sys, kl, i, d)

\* A range test that every prey passes
InRaidRangeAlways(cfg, pos, prey_pos) == TRUE

InRaidRange(cfg, pos, prey_pos) == Dist2(pos, prey_pos) < cfg.raid_range * cfg.raid_range

\* A raid that is over as soon as progress equals the duration
RaidDoneAtDuration(cfg, progress) == progress >= cfg.raid_duration

\* `if progress > self.config.raid_duration as isize`
RaidDone(cfg, progress) == progress > cfg.raid_duration

\* A push that stores the index of a killed prey twice
PushKillTwice(kl, prey, roll) == IF roll THEN Append(Append(kl, prey), prey) ELSE kl

\* The kill list after a completed raid on `prey`: `roll` is gen_bool(death_prob)
PushKill(kl, prey, roll) == IF roll /\ ~Contains(kl, prey) THEN Append(kl, prey) ELSE kl

\* update_ship, arm Hunt
ShipHunt(cfg, sh, sys, kl, i, d, roll) ==
    LET prey == sh[i].goal.prey
        progress == sh[i].goal.progress
    IN  IF prey \notin DOMAIN sh THEN Panicked(sh, sys, kl, "ships[prey]")
        ELSE
        LET prey_pos == sh[prey].pos
            sh1 == [sh EXCEPT ![i] = update_ship_pos(sh[i], prey_pos)]
        IN  IF sh1[prey].job.kind # "Trader" THEN Outcome(sh1, sys, kl)
            ELSE IF ~sh1[prey].job.cargo THEN update_ship_goal(sh1, sys, kl, i, d)
            ELSE IF InRaidRange(cfg, sh1[i].pos, prey_pos)
            THEN LET sh2 == [sh1 EXCEPT ![prey].speed = sh1[prey].initial_speed,
                                        ![i].goal = Hunt(prey, progress + 1)]
                 IN  IF RaidDone(cfg, progress)
                     THEN update_ship_goal(sh2, sys, PushKill(kl, prey, roll), i, d)
                     ELSE Outcome(sh2, sys, kl)
            ELSE Outcome([sh1 EXCEPT ![i].goal = Wander], sys, kl)

\* A miner on its way to a station
AtStation(ship, sys) ==
    /\ ship.job.kind = "Miner" /\ ship.goal.kind = "Visit"
    /\ sys[ship.goal.target].feat = "Station"

\* One iteration of the loop `for ship_index in 0..self.ships.len()`:
\* the outcome of update_ship(ship_index) becomes the state, and the pass
\* goes on to the next index or, after the last one, to the removal.
PassStep(out) ==
    /\ ships' = out.ships
    /\ system' = out.system
    /\ killed' = out.killed
    /\ panic' = out.panic
    /\ raided' = raided \cup {out.ships[out.killed[k]].id :
                                k \in (Len(killed) + 1)..Len(out.killed)}
    /\ ship_index' = ship_index + 1
    /\ pc' = IF out.panic # "" THEN "panic"
             ELSE IF ship_index + 1 = pass_len THEN "kill" ELSE "ships"
    /\ phases' = IF ship_index = 0 THEN Append(phases, "ships") ELSE phases
    /\ delivered' = IF out.complete /\ AtStation(ships[ship_index], system)
                    THEN [delivered EXCEPT ![ships[ship_index].id] = @ + 1]
                    ELSE delivered
    /\ Record("ship", out.complete, out.fallback)
    /\ UNCHANGED <<config, pass_len, tick, next_id, removed, spawned>>

\* The iteration in a program that runs this Sim alone
StepPass(out) == PassStep(out) /\ UNCHANGED <<twin, call>>

InPass(kind) ==
    /\ pc = "ships"
    /\ ship_index < pass_len
    /\ ships[ship_index].goal.kind = kind

\* The draws a completed Visit of ship i takes
VisitDests(sh, sys, i) ==
    IF sh[i].job.kind = "Trader" /\ TraderDests(sys, sh[i].goal.target) # {}
    THEN TraderDests(sys, sh[i].goal.target) ELSE {0}

VisitProgress(cfg, sh, sys, i) ==
    IF sh[i].job.kind = "Miner" /\ sys[sh[i].goal.target].feat = "Ore"
    THEN cfg.harvest_variance ELSE {0}

UpdateShipVisit ==
    /\ InPass("Visit")
    /\ \E dest \in VisitDests(ships, system, ship_index),
          progress \in VisitProgress(config, ships, system, ship_index) :
          StepPass(ShipVisit(config, ships, system, killed, ship_index,
                             Draws(dest, progress, -1)))

UpdateShipWait ==
    /\ InPass("Wait")
    /\ \E release \in BOOLEAN :
          StepPass(ShipWait(config, ships, system, killed, ship_index,
                            Draws(0, 0, -1), release))

UpdateShipWander ==
    /\ InPass("Wander")
    /\ \E left \in BOOLEAN :
          StepPass(ShipWander(config, ships, system, killed, ship_index,
                              Draws(0, 0, -1), left))

UpdateShipScan ==
    /\ InPass("Scan")
    /\ LET found == prey_indices(config, ships, ship_index)
       IN  IF found = {}
           THEN StepPass(ShipScan(config, ships, system, killed, ship_index,
                                  Draws(0, 0, -1)))
           ELSE \E prey \in found, progress \in config.raid_variance :
                   StepPass(ShipScan(config, ships, system, killed, ship_index,
                                     Draws(0, progress, prey)))

UpdateShipHunt ==
    /\ InPass("Hunt")
    /\ \E roll \in BOOLEAN :
          StepPass(ShipHunt(config, ships, system, killed, ship_index,
                            Draws(0, 0, -1), roll))

-----------------------------------------------------------------------------
(* Sim::update, phase 4: the removal of the killed ships *)

\* A patch that retargets the hunters of `index` but shifts no index
PatchGoalNoShift(goal, index) ==
    IF goal.kind = "Hunt" /\ goal.prey = index THEN Wander ELSE goal

\* The patch of one goal for the removal of `index`
PatchGoal(goal, index) ==
    IF goal.kind # "Hunt" THEN goal
    ELSE IF goal.prey = index THEN Wander
    ELSE IF goal.prey > index THEN Hunt(goal.prey - 1, goal.progress)
    ELSE goal

PatchHunts(sh, index) == [i \in DOMAIN sh |-> [sh[i] EXCEPT !.goal = PatchGoal(@, index)]]

\* One iteration of `for index in self.killed.drain(0..)`; Vec::remove
\* panics when index is not below the length.
KillStep ==
    /\ pc = "kill"
    /\ killed # <<>>
    /\ LET index == Head(killed)
           patched == PatchHunts(ships, index)
       IN  IF index < VLen(ships)
           THEN /\ ships' = VecRemove(patched, index)
                /\ removed' = removed \cup {ships[index].id}
                /\ killed' = Tail(killed)
                /\ UNCHANGED <<pc, panic>>
           ELSE /\ ships' = patched
                /\ killed' = <<>>
                /\ pc' = "panic"
                /\ panic' = "remove"
                /\ UNCHANGED removed
    /\ phases' = IF phases[Len(phases)] = "kill" THEN phases ELSE Append(phases, "kill")
    /\ Record("kill", FALSE, FALSE)
    /\ UNCHANGED <<twin, call, delivered, config, system, ship_index, pass_len, tick, next_id, raided, spawned>>

\* Sim::update returns
EndUpdate ==
    /\ pc = "kill"
    /\ killed = <<>>
    /\ pc' = "idle"
    /\ phases' = IF phases[Len(phases)] = "kill" THEN phases ELSE Append(phases, "kill")
    /\ Record("end", FALSE, FALSE)
    /\ UNCHANGED <<twin, call, delivered, config, system, ships, killed, ship_index, pass_len, panic, tick,
                   next_id, raided, removed, spawned>>

Next ==
    \/ New
    \/ UpdatePlanets
    \/ Spawn
    \/ UpdateShipVisit
    \/ UpdateShipWait
    \/ UpdateShipWander
    \/ UpdateShipScan
    \/ UpdateShipHunt
    \/ KillStep
    \/ EndUpdate

Spec == Init /\ [][Next]_vars

-----------------------------------------------------------------------------
(* The harvest of a single miner under several harvest settings *)

\* Harvest settings: a Range lo..hi of the source is the set lo..hi-1
HarvestConfigs ==
    {[LoneMinerConfig EXCEPT !.harvest_duration = h[1], !.harvest_variance = h[2]] :
        h \in {<<0, 0..0>>, <<0, 0..1>>, <<2, -1..1>>, <<1, 0..2>>}}

HarvestInit ==
    /\ config \in HarvestConfigs
    /\ system = Skeleton(MinBodies, AllCw(MinBodies))
    /\ ships = EmptyVec
    /\ killed = <<>>
    /\ pc = "new"
    /\ ship_index = 0
    /\ pass_len = 0
    /\ panic = ""
    /\ tick = 0
    /\ next_id = 0
    /\ raided = {}
    /\ removed = {}
    /\ spawned = {}
    /\ phases = <<>>
    /\ old = [ships |-> EmptyVec, system |-> EmptyVec, killed |-> <<>>]
    /\ last = "init"
    /\ complete = FALSE
    /\ fallback = FALSE
    /\ delivered = EmptyVec
    /\ twin = NoTwin
    /\ call = NoCall

\* Sim::new and Sim::update of a Sim whose only ship is a miner
HarvestNext ==
    \/ New
    \/ UpdatePlanets
    \/ Spawn
    \/ UpdateShipVisit
    \/ UpdateShipWait
    \/ EndUpdate

\* Sim::update is called again and again until the program panics.
HarvestSpec == HarvestInit /\ [][HarvestNext]_vars /\ WF_vars(HarvestNext)

------------------------------------------------------------------------------
(* Sim::new from the planet loop on, followed by Sim::update: the systems    *)
(* have planets with moons.  The configuration asks for no ships, so that    *)
(* a tick is the orbit phase, a spawn step without stock and an empty pass.  *)

OrbitConfigs == {[GenConfig EXCEPT !.miner_count = 0]}

OrbitInit ==
    /\ config \in OrbitConfigs
    /\ system = [i \in {0} |-> PlanetNew(config.sun_rad)]
    /\ ships = EmptyVec
    /\ killed = <<>>
    /\ pc = "planet"
    /\ ship_index = 0
    /\ pass_len = 0
    /\ panic = ""
    /\ tick = 0
    /\ next_id = 0
    /\ raided = {}
    /\ removed = {}
    /\ spawned = {}
    /\ phases = <<>>
    /\ old = [ships |-> EmptyVec, system |-> EmptyVec, killed |-> <<>>]
    /\ last = "init"
    /\ complete = FALSE
    /\ fallback = FALSE
    /\ delivered = EmptyVec
    /\ twin = NoTwin
    /\ call = NoCall

OrbitNext ==
    \/ GenPlanet
    \/ GenMoon
    \/ GenAccept
    \/ GenReject
    \/ NewPanic
    \/ New
    \/ UpdatePlanets
    \/ Spawn
    \/ EndUpdate

OrbitSpec == OrbitInit /\ [][OrbitNext]_vars

-----------------------------------------------------------------------------
(* Sim::new and Sim::update under a configuration with four miners: the      *)
(* stations build their second trader later than under SmallConfig, and the   *)
(* registry ends with exactly two traders when the pirates raid them.         *)

RaidConfigs == {[SmallConfig EXCEPT !.miner_count = 4]}

RaidInit ==
    /\ config \in RaidConfigs
    /\ system = Skeleton(MinBodies, AllCw(MinBodies))
    /\ ships = EmptyVec
    /\ killed = <<>>
    /\ pc = "new"
    /\ ship_index = 0
    /\ pass_len = 0
    /\ panic = ""
    /\ tick = 0
    /\ next_id = 0
    /\ raided = {}
    /\ removed = {}
    /\ spawned = {}
    /\ phases = <<>>
    /\ old = [ships |-> EmptyVec, system |-> EmptyVec, killed |-> <<>>]
    /\ last = "init"
    /\ complete = FALSE
    /\ fallback = FALSE
    /\ delivered = EmptyVec
    /\ twin = NoTwin
    /\ call = NoCall

RaidSpec == RaidInit /\ [][Next]_vars

-----------------------------------------------------------------------------
(* Two Sims built from the same SimConfig with the same system_seed, and     *)
(* updated side by side.  A draw from `prng` (StdRng seeded with             *)
(* system_seed) is the same value in both Sims as long as both have drawn    *)
(* equally often; a draw from rand::thread_rng() (Orbit::new, Ship::new) is  *)
(* taken by each Sim on its own.                                             *)

\* One miner, no pirate, no trader: the only draw of `prng` after
\* construction is the one from harvest_variance, a range of one value.
TwinConfigs == {LoneMinerConfig}

\* Orbit::new, `ccw: prng.gen_bool(0.5f64)` with prng = rand::thread_rng():
\* the directions of the bodies of one Sim
ThreadCcw == {c \in [0..(MinBodies - 1) -> BOOLEAN] : ~c[0]}

\* Ship::new, `angle: rand::thread_rng().gen::<f32>() * 6.28`
ThreadAngles == {0, 1}

WithAngles(sh, angle) == [i \in DOMAIN sh |-> [sh[i] EXCEPT !.angle = angle[i]]]

\* update_ship: the match on the goal of ship i
UpdateShipOf(cfg, sh, sys, kl, i, d, release, left, roll) ==
    CASE sh[i].goal.kind = "Visit" -> ShipVisit(cfg, sh, sys, kl, i, d)
      [] sh[i].goal.kind = "Wait" -> ShipWait(cfg, sh, sys, kl, i, d, release)
      [] sh[i].goal.kind = "Wander" -> ShipWander(cfg, sh, sys, kl, i, d, left)
      [] sh[i].goal.kind = "Scan" -> ShipScan(cfg, sh, sys, kl, i, d)
      [] OTHER -> ShipHunt(cfg, sh, sys, kl, i, d, roll)

TwinInit ==
    /\ config \in TwinConfigs
    /\ \E ccw \in ThreadCcw, twin_ccw \in ThreadCcw :
          /\ system = Skeleton(MinBodies, ccw)
          /\ twin = [system |-> Skeleton(MinBodies, twin_ccw), ships |-> EmptyVec]
    /\ ships = EmptyVec
    /\ killed = <<>>
    /\ pc = "new"
    /\ ship_index = 0
    /\ pass_len = 0
    /\ panic = ""
    /\ tick = 0
    /\ next_id = 0
    /\ raided = {}
    /\ removed = {}
    /\ spawned = {}
    /\ phases = <<>>
    /\ old = [ships |-> EmptyVec, system |-> EmptyVec, killed |-> <<>>]
    /\ last = "init"
    /\ complete = FALSE
    /\ fallback = FALSE
    /\ delivered = EmptyVec
    /\ call = NoCall

\* Sim::new in both Sims: the draws of `prng` are shared, the angle of
\* Ship::new is drawn twice.
TwinNew ==
    /\ pc = "new"
    /\ EnoughBodies(system)
    /\ \E rand_pl_index \in 2..(VLen(system) - 1),
          fill \in [DOMAIN system -> {"None", "Station", "Ore"}] :
          LET sys == NewFeatures(system, rand_pl_index, fill)
              twin_sys == NewFeatures(twin.system, rand_pl_index, fill)
              mi == 0..(config.miner_count - 1)
              pi == 0..(config.pirate_count - 1)
              all == 0..(config.miner_count + config.pirate_count - 1)
          IN  /\ \A i \in DOMAIN system :
                    (i = 0 \/ EssentialFeatures(VLen(system), rand_pl_index)[i] # "None")
                        => fill[i] = "None"
              /\ system' = sys
              /\ \E mpos \in [mi -> MinerStarts], mtarget \in MinerTargets(config, sys),
                    porigin \in [pi -> PirateOrigins], poffset \in [pi -> PirateOffsets],
                    pangle \in [pi -> PirateAngles],
                    angle \in [all -> ThreadAngles], twin_angle \in [all -> ThreadAngles] :
                    /\ ships' = WithAngles(NewShips(config, sys, mpos, mtarget,
                                                    porigin, poffset, pangle), angle)
                    /\ twin' = [system |-> twin_sys,
                                ships |-> WithAngles(NewShips(config, twin_sys, mpos, mtarget,
                                                              porigin, poffset, pangle),
                                                     twin_angle)]
    /\ next_id' = config.miner_count + config.pirate_count
    /\ delivered' = [i \in 0..(config.miner_count - 1) |-> 0]
    /\ pc' = "idle"
    /\ Record("new", FALSE, FALSE)
    /\ UNCHANGED <<call, config, killed, ship_index, pass_len, panic, tick, raided,
                   removed, spawned, phases>>

TwinUpdatePlanets ==
    /\ pc = "idle"
    /\ tick < MaxTicks
    /\ system' = update_planet_pos(system, 0)
    /\ twin' = [twin EXCEPT !.system = update_planet_pos(twin.system, 0)]
    /\ tick' = tick + 1
    /\ pc' = "spawn"
    /\ phases' = <<"orbit">>
    /\ raided' = {}
    /\ removed' = {}
    /\ spawned' = {}
    /\ Record("orbit", FALSE, FALSE)
    /\ UNCHANGED <<call, delivered, config, ships, killed, ship_index, pass_len, panic,
                   next_id>>

TwinSpawn ==
    /\ pc = "spawn"
    /\ LET r == SpawnFrom(config, system, ships, 0, next_id)
           t == SpawnFrom(config, twin.system, twin.ships, 0, next_id)
       IN  /\ system' = r.system
           /\ ships' = r.ships
           /\ twin' = [system |-> t.system, ships |-> t.ships]
           /\ next_id' = r.next_id
           /\ spawned' = next_id..(r.next_id - 1)
           /\ pass_len' = PassEnd(ships, r.ships)
           /\ pc' = IF PassEnd(ships, r.ships) = 0 THEN "kill" ELSE "ships"
    /\ ship_index' = 0
    /\ phases' = Append(phases, "spawn")
    /\ Record("spawn", FALSE, FALSE)
    /\ UNCHANGED <<call, delivered, config, killed, panic, tick, raided, removed>>

\* update_ship(ship_index) in both Sims, of the same build
TwinUpdateShip ==
    /\ pc = "ships"
    /\ ship_index < pass_len
    /\ \E progress \in config.harvest_variance, release \in BOOLEAN :
          LET d == Draws(0, progress, -1)
              t == UpdateShipOf(config, twin.ships, twin.system, <<>>, ship_index, d,
                                release, FALSE, FALSE)
          IN  /\ PassStep(UpdateShipOf(config, ships, system, killed, ship_index, d,
                                       release, FALSE, FALSE))
              /\ twin' = [system |-> t.system, ships |-> t.ships]
    /\ UNCHANGED call

TwinEndUpdate ==
    /\ pc = "kill"
    /\ killed = <<>>
    /\ pc' = "idle"
    /\ phases' = IF phases[Len(phases)] = "kill" THEN phases ELSE Append(phases, "kill")
    /\ Record("end", FALSE, FALSE)
    /\ UNCHANGED <<twin, call, delivered, config, system, ships, killed, ship_index,
                   pass_len, panic, tick, next_id, raided, removed, spawned>>

TwinNext ==
    \/ TwinNew
    \/ TwinUpdatePlanets
    \/ TwinSpawn
    \/ TwinUpdateShip
    \/ TwinEndUpdate

TwinSpec == TwinInit /\ [][TwinNext]_vars

-----------------------------------------------------------------------------
(* The helper functions of the module, called on arguments drawn from       *)
(* small sets: arrived, filter_system and nearest_with_feature.              *)

Points == (-Reach..Reach) \X (-Reach..Reach)

\* Centres and radii of the body of an arrival test
Centres == {<<0, 0>>, <<1, -1>>}
Radii == {1, 2}

\* Where the bodies of a system under filter_system stand, and from where
\* nearest_with_feature looks at them
BodyPoints == {<<2, 0>>, <<0, 2>>, <<Reach, 1>>}
ShipPoints == {<<0, 0>>, <<1, 1>>, <<Reach, 0>>}

\* What Sim::new and Sim::update leave on a body other than the sun: no
\* feature, Ore, or a Station with some stock
Features == {[feat |-> "None", stock |-> 0], [feat |-> "Ore", stock |-> 0],
             [feat |-> "Station", stock |-> 0], [feat |-> "Station", stock |-> 2]}

\* A system of MinBodies bodies: the sun, which has no feature, and planets
Arrange(feats, at) ==
    [i \in 0..(MinBodies - 1) |->
        IF i = 0 THEN Skeleton(MinBodies, AllCw(MinBodies))[0]
        ELSE [Skeleton(MinBodies, AllCw(MinBodies))[i] EXCEPT
                 !.feat = feats[i].feat, !.stock = feats[i].stock, !.pos = at[i]]]

HelperInit == Init /\ config = SmallConfig

\* What a call leaves alone
Rest == <<config, system, ships, killed, pc, ship_index, pass_len, panic,
          tick, next_id, raided, removed, spawned, phases, old, last,
          complete, fallback, delivered, twin>>

Called(fn, args, result) == [fn |-> fn, args |-> args, result |-> result]

\* One call per run: the functions read nothing but their arguments.
CallArrived ==
    /\ call = NoCall
    /\ \E ship_pos \in Points, old_ship_pos \in Points, pl_pos \in Centres,
          pl_rad \in Radii :
          call' = Called("arrived",
                         [ship_pos |-> ship_pos, old_ship_pos |-> old_ship_pos,
                          pl_pos |-> pl_pos, pl_rad |-> pl_rad],
                         arrived(ship_pos, old_ship_pos, pl_pos, pl_rad))
    /\ UNCHANGED Rest

CallFilter ==
    /\ call = NoCall
    /\ \E feats \in [1..(MinBodies - 1) -> Features],
          at \in [1..(MinBodies - 1) -> BodyPoints], filter \in {"Station", "Ore"} :
          call' = Called("filter_system",
                         [system |-> Arrange(feats, at), filter |-> filter],
                         pl_indices(Arrange(feats, at), filter))
    /\ UNCHANGED Rest

CallNearest ==
    /\ call = NoCall
    /\ \E feats \in [1..(MinBodies - 1) -> Features],
          at \in [1..(MinBodies - 1) -> BodyPoints], filter \in {"Station", "Ore"},
          pos \in ShipPoints :
          call' = Called("nearest_with_feature",
                         [system |-> Arrange(feats, at), filter |-> filter, pos |-> pos],
                         nearest_with_feature(Arrange(feats, at), filter, pos))
    /\ UNCHANGED Rest

HelperNext ==
    \/ CallArrived
    \/ CallFilter
    \/ CallNearest

HelperSpec == HelperInit /\ [][HelperNext]_vars

-----------------------------------------------------------------------------
(* Vocabulary of the properties *)

RECURSIVE SumStock(_, _)
SumStock(sys, n) == IF n = 0 THEN 0 ELSE sys[n - 1].stock + SumStock(sys, n - 1)

\* Station stock plus one unit per trader that carries cargo
Total(sys, sh) ==
    SumStock(sys, VLen(sys))
        + Cardinality({i \in DOMAIN sh : sh[i].job.kind = "Trader" /\ sh[i].job.cargo})

\* The last step was update_ship of the ship at index Updated
ShipStepped == last = "ship"
Updated == ship_index - 1
Before == old.ships[Updated]
After == ships[Updated]

\* The last step completed the Visit of a trader / of a miner at a station
TraderDone ==
    /\ ShipStepped /\ complete
    /\ Before.job.kind = "Trader" /\ Before.goal.kind = "Visit"

MinerDelivered ==
    /\ ShipStepped /\ complete
    /\ Before.job.kind = "Miner" /\ Before.goal.kind = "Visit"
    /\ old.system[Before.goal.target].feat = "Station"

\* The last step completed a hunt (the raid ended or the prey had no cargo)
HuntDone == ShipStepped /\ complete /\ Before.goal.kind = "Hunt"

\* The stock of the trader's station after its deposit, if any
AfterDeposit ==
    old.system[Before.goal.target].stock + (IF Before.job.cargo THEN 1 ELSE 0)

\* The stations the spawn step found with more stock than a ship costs
Eligible ==
    {p \in DOMAIN old.system :
        old.system[p].feat = "Station" /\ old.system[p].stock > config.ship_cost}

Appended == {i \in DOMAIN ships : i >= VLen(old.ships)}

AllPhases == <<"orbit", "spawn", "ships", "kill">>

\* The (job, goal) pairs update_ship_goal has an arm for
ValidPair(ship) ==
    \/ ship.job.kind = "Miner" /\ ship.goal.kind \in {"Visit", "Wait"}
    \/ ship.job.kind = "Trader" /\ ship.goal.kind = "Visit"
    \/ ship.job.kind = "Pirate" /\ ship.goal.kind \in {"Wander", "Scan", "Hunt"}

-----------------------------------------------------------------------------
(* C1: at the end of every tick the ships removed by the removal step are  *)
(* exactly the ships that stood at the indices pushed to the kill list     *)
(* during the per-ship pass.                                               *)
C1_RemovedExactlyRaided == (pc = "idle" /\ tick > 0) => removed = raided

(* C2: when the removal step processes kill-list index k, every Hunt goal  *)
(* with prey = k becomes Wander, every Hunt.prey greater than k is         *)
(* decremented by exactly one, every Hunt.prey less than k is unchanged,   *)
(* and each surviving Hunt goal refers to the same ship as before.         *)
C2_RemovalPatch ==
    (last = "kill" /\ panic = "") =>
        LET k == Head(old.killed)
            before == old.ships
        IN  \A i \in DOMAIN before \ {k} :
                LET j == IF i < k THEN i ELSE i - 1
                    g == before[i].goal
                    h == ships[j].goal
                IN  /\ ships[j].id = before[i].id
                    /\ g.kind # "Hunt" => h = g
                    /\ (g.kind = "Hunt" /\ g.prey = k) => h = Wander
                    /\ (g.kind = "Hunt" /\ g.prey > k) => h = Hunt(g.prey - 1, g.progress)
                    /\ (g.kind = "Hunt" /\ g.prey < k) => h = g
                    /\ (g.kind = "Hunt" /\ g.prey # k /\ g.prey \in DOMAIN before) =>
                            /\ h.kind = "Hunt"
                            /\ ships[h.prey].id = before[g.prey].id

C2_Witness ==
    /\ last = "kill" /\ panic = ""
    /\ \E i \in DOMAIN old.ships :
          /\ old.ships[i].goal.kind = "Hunt"
          /\ old.ships[i].goal.prey > Head(old.killed)

(* C3: after Sim::new and at every point of every update each ship's       *)
(* (Job, Goal) pair is Miner with Visit or Wait, Trader with Visit, or     *)
(* Pirate with Wander, Scan or Hunt, and update_ship_goal never takes its  *)
(* fallback arm.                                                           *)
C3_JobGoalValid ==
    pc # "new" => (~fallback /\ \A i \in DOMAIN ships : ValidPair(ships[i]))

C3_Witness ==
    /\ ShipStepped /\ complete /\ ~fallback
    /\ Before.job.kind = "Pirate" /\ Before.goal.kind = "Scan"
    /\ After.goal.kind = "Hunt"
    /\ \E i \in DOMAIN ships : ships[i].job.kind = "Miner"
    /\ \E i \in DOMAIN ships : ships[i].job.kind = "Trader" /\ ships[i].goal.kind = "Visit"

(* C4: once Sim::new has returned, at least two bodies other than the sun  *)
(* carry a Station and at least one other body carries Ore.                *)
C4_TwoStationsAndOre ==
    pc # "new" =>
        /\ Cardinality(station_indices(system) \ {0}) >= 2
        /\ Cardinality(ore_indices(system)) >= 1

(* C5: a trader that completes Visit{target} deposits its cargo, if it     *)
(* carried any (target's stock + 1, flag cleared), and gets the goal       *)
(* Visit{dest} for a station dest other than target; the choice of dest    *)
(* never fails.                                                            *)
C5_TraderVisitCompletes ==
    TraderDone =>
        /\ panic = ""
        /\ After.goal.kind = "Visit"
        /\ After.goal.target \in station_indices(system) \ {Before.goal.target}
        /\ Before.job.cargo =>
              /\ system[Before.goal.target].stock
                    = old.system[Before.goal.target].stock + 1
              /\ ~After.job.cargo

(* C6 as stated: whenever the stock of the trader's station after the      *)
(* deposit exceeds the stock of the chosen destination, the trader picks   *)
(* up one unit, also when it arrived with cargo and has just deposited it. *)
C6_PickUpAfterDeposit ==
    (TraderDone /\ panic = "") =>
        (AfterDeposit > old.system[After.goal.target].stock =>
            /\ After.job.cargo
            /\ system[Before.goal.target].stock = AfterDeposit - 1)

(* C6 as amended: the trader picks up one unit exactly when the stock of   *)
(* its station after the deposit exceeds the stock of the destination and  *)
(* it arrived without cargo; a trader that arrived with cargo leaves       *)
(* empty.  No other stock changes.                                         *)
C6_PickUpOnlyIfArrivedEmpty ==
    (TraderDone /\ panic = "") =>
        LET target == Before.goal.target
            carry == AfterDeposit > old.system[After.goal.target].stock
                        /\ ~Before.job.cargo
        IN  /\ After.job.cargo = carry
            /\ system[target].stock = AfterDeposit - (IF carry THEN 1 ELSE 0)
            /\ \A p \in DOMAIN system \ {target} : system[p].stock = old.system[p].stock

C6_Witness ==
    /\ TraderDone /\ panic = ""
    /\ ~Before.job.cargo
    /\ After.job.cargo
    /\ system[Before.goal.target].stock = old.system[Before.goal.target].stock - 1

(* C7 as stated: no step of Sim::update other than a completed raid (and   *)
(* the removal that follows it) changes the sum of the station stocks and  *)
(* the cargo in flight, except a miner's arrival at a station, which adds  *)
(* exactly one; in particular the spawn step leaves the sum alone.         *)
C7_OnlyMinersChangeTotal ==
    (last \in {"orbit", "spawn", "ship", "end"} /\ ~HuntDone) =>
        Total(system, ships)
            = Total(old.system, old.ships) + (IF MinerDelivered THEN 1 ELSE 0)

(* C7 as amended: outside completed raids the sum changes by +1 for each   *)
(* miner arrival at a station and by -ship_cost for each trader the spawn  *)
(* step appends; trader deposits and pick-ups do not change it.            *)
C7_TotalChanges ==
    (last \in {"orbit", "spawn", "ship", "end"} /\ ~HuntDone) =>
        Total(system, ships)
            = Total(old.system, old.ships)
                + (IF MinerDelivered THEN 1 ELSE 0)
                - (IF last = "spawn" THEN config.ship_cost * Cardinality(Appended) ELSE 0)

C7_Witness == last = "spawn" /\ Appended # {} /\ config.ship_cost > 0

(* C8: the spawn step takes exactly ship_cost from every station whose     *)
(* stock is strictly greater than ship_cost and appends for it exactly one *)
(* Trader{cargo: false} at the station's position with goal Visit of that  *)
(* station; every other body and every earlier ship is left alone.         *)
C8_SpawnStep ==
    last = "spawn" =>
        /\ Cardinality(Appended) = Cardinality(Eligible)
        /\ \A i \in DOMAIN old.ships : ships[i] = old.ships[i]
        /\ \A p \in DOMAIN system :
              system[p] = IF p \in Eligible
                          THEN [old.system[p] EXCEPT !.stock = @ - config.ship_cost]
                          ELSE old.system[p]
        /\ \A p \in Eligible :
              /\ Cardinality({i \in Appended : ships[i].goal = Visit(p)}) = 1
              /\ \A i \in Appended :
                    ships[i].goal = Visit(p) =>
                        /\ ships[i].job = Trader(FALSE)
                        /\ ships[i].pos = system[p].pos
        /\ \A i \in Appended : \E p \in Eligible : ships[i].goal = Visit(p)

C8_Witness ==
    /\ last = "spawn"
    /\ Eligible # {}
    /\ \E p \in station_indices(system) \ Eligible : TRUE

(* C9: a trader appended by the spawn step completes its initial Visit in  *)
(* the per-ship pass of the same tick and leaves it with the goal Visit of *)
(* a different station.                                                    *)
C9_SpawnedArrivesSameTick ==
    (ShipStepped /\ Before.id \in spawned) =>
        /\ complete
        /\ After.goal.kind = "Visit"
        /\ After.goal.target # Before.goal.target

(* C10: within one update the phases run in the order orbit, spawn,        *)
(* per-ship pass, removal; the pass covers every ship of the registry,     *)
(* the traders appended in this tick included, once and in index order;    *)
(* the registry shrinks and the kill list is consumed only in the removal. *)
C10_PhaseOrder ==
    /\ \E n \in 0..4 : phases = SubSeq(AllPhases, 1, n)
    /\ pc = "spawn" => phases = SubSeq(AllPhases, 1, 1)
    /\ pc = "ships" => Len(phases) \in {2, 3}
    /\ (pc = "idle" /\ tick > 0) => phases = AllPhases
    /\ pc = "ships" =>
          /\ pass_len = VLen(ships)
          /\ ship_index < pass_len
          /\ \A i \in DOMAIN ships : ships[i].id \in spawned => i < pass_len
    /\ (pc = "kill" /\ last = "ship") => ship_index = VLen(ships)
    /\ ShipStepped =>
          /\ VLen(ships) = VLen(old.ships)
          /\ \A i \in DOMAIN ships : ships[i].id = old.ships[i].id
          /\ SubSeq(killed, 1, Len(old.killed)) = old.killed
    /\ last \in {"orbit", "spawn", "ship"} => removed = {}
    /\ last = "orbit" => (ships = old.ships /\ killed = old.killed)
    /\ last = "spawn" => killed = old.killed

C10_Witness == pc = "idle" /\ tick > 0 /\ spawned # {} /\ phases = AllPhases

\* The number of positions of moon list `list` that hold index i
Occurrences(list, i) == Cardinality({k \in DOMAIN list : list[k] = i})

\* The body graph of a generated system
WellFormed(sys) ==
    /\ ~sys[0].orbit.some
    /\ sys[0].feat = "None"
    /\ \A i \in DOMAIN sys \ {0} :
          /\ sys[i].orbit.some
          /\ sys[i].orbit.parent_index < i
          /\ \A p \in DOMAIN sys :
                Occurrences(sys[p].moon_indices, i)
                    = (IF p = sys[i].orbit.parent_index THEN 1 ELSE 0)
    /\ \A p \in DOMAIN sys :
          /\ sys[p].orbit.some => sys[p].orbit.parent_index \in DOMAIN sys
          /\ \A k \in DOMAIN sys[p].moon_indices : sys[p].moon_indices[k] \in DOMAIN sys

(* C11: once the planet loop has ended (and after Sim::new has returned),  *)
(* body 0 has no orbit and no feature, every other body has an orbit whose *)
(* parent index is smaller than its own index, every non-sun index stands  *)
(* in exactly one moon list, that of its orbit parent, and no orbit or     *)
(* moon list refers to an index at or beyond the length of the system.     *)
C11_BodyGraph == pc \in {"new", "idle", "panic"} => WellFormed(system)

C11_Witness ==
    /\ last = "reject"
    /\ VLen(old.system) >= VLen(system) + 2
    /\ \E i \in DOMAIN system \ {0} : VLen(system[i].moon_indices) > 0

(* C12: Sim::new returns only systems of at least four bodies; when the    *)
(* planet loop leaves fewer than four bodies Sim::new panics.              *)
C12_FourBodies ==
    /\ pc = "idle" => VLen(system) >= 4
    /\ pc = "panic" => (panic = "bodies" /\ VLen(system) < 4)
    /\ (last = "new" /\ VLen(old.system) < 4) => pc = "panic"

C12_Witness == pc = "panic" /\ panic = "bodies" /\ VLen(system) = 3

RECURSIVE SumVec(_, _)
SumVec(v, n) == IF n = 0 THEN 0 ELSE v[n - 1] + SumVec(v, n - 1)

\* No trader has been spawned since Sim::new
NoTraderYet == pc # "new" /\ next_id = config.miner_count + config.pirate_count

(* C13: a miner's update changes a stock only when it completes a Visit at *)
(* a Station, and then that station's stock grows by exactly one and no    *)
(* other stock changes; as long as no trader exists the total station      *)
(* stock equals the number of completed deliveries, so two deliveries of   *)
(* one miner raise it by exactly two.                                      *)
C13_MinerDeposits ==
    /\ (ShipStepped /\ Before.job.kind = "Miner") =>
          \A p \in DOMAIN system :
              system[p].stock = old.system[p].stock
                  + (IF MinerDelivered /\ p = Before.goal.target THEN 1 ELSE 0)
    /\ NoTraderYet =>
          SumStock(system, VLen(system)) = SumVec(delivered, VLen(delivered))

C13_Witness ==
    /\ MinerDelivered
    /\ VLen(delivered) = 1 /\ delivered[0] = 2
    /\ NoTraderYet
    /\ SumStock(system, VLen(system)) = 2

\* Body t carries `kind` and no body with `kind` is nearer to pos
IsNearest(sys, kind, pos, t) ==
    /\ t \in DOMAIN sys /\ sys[t].feat = kind
    /\ \A j \in DOMAIN sys :
          sys[j].feat = kind => Dist2(pos, sys[t].pos) <= Dist2(pos, sys[j].pos)

(* C14: a miner's goal moves only along the cycle Visit{ore} -> Wait{same  *)
(* ore} -> Visit{nearest station} -> Visit{nearest ore}: a completed Visit *)
(* at Ore gives Wait on that body, a completed Wait gives Visit of the     *)
(* station nearest to the ship, a completed Visit at a Station gives Visit *)
(* of the ore body nearest to the ship; an update that completes nothing   *)
(* keeps the goal (a Wait counts one tick); Sim::new starts every miner    *)
(* with Visit of an ore body.                                              *)
C14_MinerCycle ==
    /\ last = "new" =>
          \A i \in DOMAIN ships :
              ships[i].job.kind = "Miner" =>
                  (ships[i].goal.kind = "Visit"
                      /\ system[ships[i].goal.target].feat = "Ore")
    /\ (ShipStepped /\ panic = "" /\ Before.job.kind = "Miner") =>
          LET g == Before.goal
              h == After.goal
              feat == old.system[g.target].feat
          IN  /\ After.job.kind = "Miner"
              /\ g.kind \in {"Visit", "Wait"}
              /\ (g.kind = "Visit" /\ ~complete) => h = g
              /\ (g.kind = "Visit" /\ complete) => feat \in {"Ore", "Station"}
              /\ (g.kind = "Visit" /\ complete /\ feat = "Ore") =>
                    (h.kind = "Wait" /\ h.target = g.target
                        /\ h.progress \in config.harvest_variance)
              /\ (g.kind = "Visit" /\ complete /\ feat = "Station") =>
                    (h.kind = "Visit" /\ IsNearest(system, "Ore", After.pos, h.target))
              /\ (g.kind = "Wait" /\ ~complete) => h = Wait(g.target, g.progress + 1)
              /\ (g.kind = "Wait" /\ complete) =>
                    (h.kind = "Visit"
                        /\ IsNearest(system, "Station", After.pos, h.target))

C14_Witness ==
    /\ ShipStepped /\ complete /\ panic = ""
    /\ Before.job.kind = "Miner" /\ Before.goal.kind = "Wait"
    /\ After.goal.kind = "Visit"
    /\ delivered[Before.id] >= 1
    /\ \E j \in station_indices(system) :
          Dist2(After.pos, system[j].pos)
              > Dist2(After.pos, system[After.goal.target].pos)

\* The single miner of a harvest run is in Wait
Waiting == pc \notin {"new", "panic"} /\ ships[0].goal.kind = "Wait"

\* The single miner of a harvest run is under way to a body
Leaving == pc \notin {"new", "panic"} /\ ships[0].goal.kind = "Visit"

(* C15: for every harvest duration and harvest variance, a miner that      *)
(* enters Wait leaves it after finitely many ticks (within the explored    *)
(* ticks) with the goal Visit.                                             *)
C15_WaitCompletes ==
    Waiting ~> (Leaving \/ tick = MaxTicks)

\* The last step was the update of a pirate whose goal was `kind`
PirateStepped(kind) ==
    ShipStepped /\ Before.job.kind = "Pirate" /\ Before.goal.kind = kind

(* C16: a pirate whose goal is Wander signals completion in every tick,    *)
(* inside and outside its territory, so that its update always leaves it   *)
(* with the goal Scan.                                                     *)
C16_WanderCompletes == PirateStepped("Wander") => (complete /\ After.goal = Scan)

\* The ships a scanning pirate can detect: traders with cargo nearer than
\* half the territory radius, before the pirate's update
Detectable ==
    {t \in DOMAIN old.ships :
        /\ old.ships[t].job = Trader(TRUE)
        /\ 4 * Dist2(Before.pos, old.ships[t].pos)
              < config.pirate_territory * config.pirate_territory}

(* C17: a pirate in Scan completes in one tick; its next goal is Hunt of a *)
(* ship that is a Trader with cargo within detection range at that moment, *)
(* with a progress drawn from raid_variance, or Wander when there is no    *)
(* such ship; the scan changes nothing but the pirate's own goal.          *)
C17_Scan ==
    PirateStepped("Scan") =>
        /\ complete /\ panic = ""
        /\ Detectable = {} => After.goal = Wander
        /\ Detectable # {} =>
              /\ After.goal.kind = "Hunt"
              /\ After.goal.prey \in Detectable
              /\ After.goal.progress \in config.raid_variance
        /\ ships = [old.ships EXCEPT ![Updated].goal = After.goal]
        /\ system = old.system
        /\ killed = old.killed

C17_Witness ==
    /\ PirateStepped("Scan")
    /\ After.goal.kind = "Hunt"
    /\ \E t \in DOMAIN ships \ Detectable : ships[t].job = Trader(FALSE)

\* The prey of the pirate updated by the last step, before the update
Prey == Before.goal.prey

\* The last step updated a hunting pirate whose prey is a trader
HuntStepped == PirateStepped("Hunt") /\ Prey \in DOMAIN old.ships /\ panic = ""

\* The prey was within raid range of the pirate after the pirate's move
PreyInRange ==
    Dist2(After.pos, old.ships[Prey].pos) < config.raid_range * config.raid_range

\* The last step was a raid that ran past its duration
RaidCompleted ==
    /\ HuntStepped
    /\ old.ships[Prey].job = Trader(TRUE)
    /\ PreyInRange
    /\ Before.goal.progress > config.raid_duration

(* C18: when a hunting pirate's progress exceeds raid_duration while the   *)
(* prey carries cargo within raid range, the raid completes: the prey's    *)
(* cargo flag is cleared, the pirate's goal becomes Wander, and the kill   *)
(* list either stays as it is or gets the prey's index appended, the       *)
(* latter only if the index was not in the list.                           *)
C18_RaidCompletes ==
    RaidCompleted =>
        /\ complete
        /\ ships[Prey].job = Trader(FALSE)
        /\ After.goal = Wander
        /\ \/ killed = old.killed
           \/ ~Contains(old.killed, Prey) /\ killed = Append(old.killed, Prey)

C18_Witness == RaidCompleted /\ killed = Append(old.killed, Prey)

(* C19: when the prey of a hunting pirate carries cargo but is outside     *)
(* raid range at the pirate's update, the pirate's goal becomes Wander and *)
(* the prey (cargo flag, speed) and the kill list are unchanged.           *)
C19_PreyEscaped ==
    (HuntStepped /\ old.ships[Prey].job = Trader(TRUE) /\ ~PreyInRange) =>
        /\ After.goal = Wander
        /\ ships[Prey] = old.ships[Prey]
        /\ killed = old.killed

C19_Witness ==
    HuntStepped /\ old.ships[Prey].job = Trader(TRUE) /\ ~PreyInRange

(* C20: when the prey of a hunting pirate has no cargo at the pirate's     *)
(* update, the pirate's goal becomes Wander in that update, no Hunt        *)
(* progress is counted and nothing is added to the kill list.              *)
C20_PreyEmpty ==
    (HuntStepped /\ old.ships[Prey].job = Trader(FALSE)) =>
        /\ complete
        /\ After.goal = Wander
        /\ killed = old.killed
        /\ ships[Prey] = old.ships[Prey]

C20_Witness == HuntStepped /\ old.ships[Prey].job = Trader(FALSE)

\* The body orbits, positions, features and stocks and the ships of a Sim
SimState(sys, sh) == [system |-> sys, ships |-> sh]

\* C21: two Sims constructed from the same SimConfig with the same seed
\* are in identical states after construction and after the same number
\* of update calls.
C21_SameSeedSameState ==
    pc = "idle" => SimState(twin.system, twin.ships) = SimState(system, ships)

\* C22: after every update of a body's orbit, for both rotation
\* directions, the stored orbit angle lies in [0, TAU).
C22_AngleInRange ==
    \A i \in DOMAIN system :
        system[i].orbit.some => system[i].orbit.angle \in 0..(TAU - 1)

\* The fields of the bodies that are fixed by Sim::new
Frame(sys) ==
    [i \in DOMAIN sys |->
        [rad |-> sys[i].rad, moon_indices |-> sys[i].moon_indices,
         has_orbit |-> sys[i].orbit.some, parent_index |-> sys[i].orbit.parent_index,
         dist |-> sys[i].orbit.dist, speed |-> sys[i].orbit.speed,
         ccw |-> sys[i].orbit.ccw, feat |-> sys[i].feat]]

\* C23: Sim::update never changes the sun's position, the number of bodies,
\* any body's radius, moon list, orbit parent, distance, speed or direction,
\* or the kind of any body's feature: every step of an update leaves them
\* as they were.
C23_Frame ==
    [][pc # "new" => (Frame(system') = Frame(system) /\ system'[0].pos = system[0].pos)]_vars

\* An update has moved a body, turned its orbit and changed a stock.
C23_Witness ==
    /\ last = "end" /\ tick > 0
    /\ \E i \in DOMAIN system : system[i].pos # <<0, 0>> /\ system[i].orbit.angle # 0
    /\ \E i \in DOMAIN system : system[i].stock > 0

\* The arguments of the last call of arrived, relative to the body:
\* F0 and F1 are the squared distances of the old and the new position
\* minus the squared radius, SegLen2 the squared length of the segment,
\* Along the scalar product of (old - centre) with (new - old).
F0 == Dist2(call.args.old_ship_pos, call.args.pl_pos) - call.args.pl_rad * call.args.pl_rad
F1 == Dist2(call.args.ship_pos, call.args.pl_pos) - call.args.pl_rad * call.args.pl_rad
SegLen2 == Dist2(call.args.ship_pos, call.args.old_ship_pos)
Along ==
    (call.args.old_ship_pos[1] - call.args.pl_pos[1])
        * (call.args.ship_pos[1] - call.args.old_ship_pos[1])
    + (call.args.old_ship_pos[2] - call.args.pl_pos[2])
        * (call.args.ship_pos[2] - call.args.old_ship_pos[2])

\* The foot of the perpendicular from the centre lies strictly inside the segment
FootInside == 0 < -Along /\ -Along < SegLen2

\* The line of the segment touches the circle, misses it, cuts it
LineTouches == SegLen2 > 0 /\ SegLen2 * F0 = Along * Along
LineCuts == SegLen2 > 0 /\ SegLen2 * F0 < Along * Along

ZeroLength == call.args.ship_pos = call.args.old_ship_pos
EntirelyOutside == F0 > 0 /\ F1 > 0 /\ (FootInside => SegLen2 * F0 > Along * Along)
EntirelyInside == F0 <= 0 /\ F1 <= 0
OneInOneOut == (F0 < 0 /\ F1 > 0) \/ (F0 > 0 /\ F1 < 0)

\* The segment meets the circle at a parameter strictly between 0 and 1,
\* and its line cuts the circle: by the signs of F at the ends, and, for an
\* end on the circle, by the place of the other root.
MeetsBetween ==
    /\ LineCuts
    /\ \/ OneInOneOut
       \/ F0 > 0 /\ F1 > 0 /\ FootInside
       \/ F0 = 0 /\ 0 < -2 * Along /\ -2 * Along < SegLen2
       \/ F1 = 0 /\ F0 # 0 /\ SegLen2 < -2 * Along /\ -2 * Along < 2 * SegLen2

\* C24: arrived returns true exactly when the segment from old to new meets
\* the circle at a parameter strictly between 0 and 1; it is false for a
\* segment entirely outside or entirely inside the disc, for a tangent and
\* for a zero-length segment, and true for a segment with one end strictly
\* inside and the other strictly outside.
C24_Arrived ==
    call.fn = "arrived" =>
        /\ call.result <=> MeetsBetween
        /\ (EntirelyOutside \/ EntirelyInside \/ LineTouches \/ ZeroLength) => ~call.result
        /\ OneInOneOut => call.result

\* A segment that touches the circle between its ends, and a crossing one
C24_Witness ==
    /\ call.fn = "arrived"
    /\ \/ LineTouches /\ FootInside /\ ~call.result
       \/ OneInOneOut /\ call.result

\* The elements of a sequence
Range(list) == {list[k] : k \in 1..Len(list)}

Ascending(list) == \A j, k \in 1..Len(list) : j < k => list[j] < list[k]

\* C25: filter_system returns, in ascending index order, exactly the
\* indices of the bodies whose feature has the given kind, whatever a
\* Station's stock, and never the sun; nearest_with_feature returns the
\* same indices ordered by non-decreasing squared distance to the position,
\* bodies at equal distance in ascending index order.
C25_FilterAndNearest ==
    /\ call.fn = "filter_system" =>
          /\ Range(call.result) =
                {i \in DOMAIN call.args.system : call.args.system[i].feat = call.args.filter}
          /\ Ascending(call.result)
          /\ 0 \notin Range(call.result)
          /\ Range(call.result) = filter_system(call.args.system, call.args.filter)
    /\ call.fn = "nearest_with_feature" =>
          LET sys == call.args.system
              D(i) == Dist2(call.args.pos, sys[i].pos)
          IN  /\ Range(call.result) = Range(pl_indices(sys, call.args.filter))
              /\ Len(call.result) = Len(pl_indices(sys, call.args.filter))
              /\ \A j, k \in 1..Len(call.result) :
                    j < k => \/ D(call.result[j]) < D(call.result[k])
                             \/ /\ D(call.result[j]) = D(call.result[k])
                                /\ call.result[j] < call.result[k]
              /\ call.result # <<>> =>
                    call.result[1] = Nearest(sys, call.args.filter, call.args.pos)

\* A sort that has moved a later body in front of an earlier one and has
\* kept two bodies at equal distance in index order
C25_Witness ==
    /\ call.fn = "nearest_with_feature"
    /\ Len(call.result) = 3
    /\ call.result[1] > call.result[2]
    /\ Dist2(call.args.pos, call.args.system[call.result[2]].pos)
         = Dist2(call.args.pos, call.args.system[call.result[3]].pos)
    /\ \E i \in Range(call.result) : call.args.system[i].stock > 0

\* C26: the stock of a body without a Station cannot be looked up (the
\* look-up panics, it has no default), and no reachable state asks for it:
\* a Trader's Visit target is a Station, a Miner's Visit or Wait target is
\* a body with a feature, and neither stock() nor the unwrap of the
\* feature in update_ship_goal has panicked.
C26_StockLookup ==
    /\ \A i \in DOMAIN system : stock(system[i]).panic <=> system[i].feat # "Station"
    /\ \A i \in DOMAIN ships :
          /\ (ships[i].job.kind = "Trader" /\ ships[i].goal.kind = "Visit") =>
                /\ ships[i].goal.target \in DOMAIN system
                /\ system[ships[i].goal.target].feat = "Station"
          /\ (ships[i].job.kind = "Miner" /\ ships[i].goal.kind \in {"Visit", "Wait"}) =>
                /\ ships[i].goal.target \in DOMAIN system
                /\ system[ships[i].goal.target].feat # "None"
    /\ panic \notin {"stock", "feat"}

\* A trader has delivered its cargo at a station while a miner is on its
\* way to an Ore body.
C26_Witness ==
    /\ ShipStepped /\ complete /\ panic = ""
    /\ Before.job = Trader(TRUE) /\ Before.goal.kind = "Visit"
    /\ system[Before.goal.target].stock > old.system[Before.goal.target].stock
    /\ \E i \in DOMAIN ships :
          /\ ships[i].job.kind = "Miner" /\ ships[i].goal.kind = "Visit"
          /\ system[ships[i].goal.target].feat = "Ore"

\* C27: no call of Sim::update fails in the removal step: each index
\* passed to Vec::remove is smaller than the length of the registry at
\* that moment.
C27_RemoveInBounds == panic # "remove"

\* C28: wherever a Hunt goal is read (a pirate's update in the per-ship
\* pass, the renderer between two updates), Hunt.prey is a valid index of
\* the registry and the ship at that index is a Trader.
C28_PreyIsTrader ==
    \A i \in DOMAIN ships :
        (/\ ships[i].goal.kind = "Hunt"
         /\ \/ pc = "idle"
            \/ pc = "ships" /\ ship_index = i) =>
            /\ ships[i].goal.prey \in DOMAIN ships
            /\ ships[ships[i].goal.prey].job.kind = "Trader"

\* The last removal of an update has shifted the prey index of a hunt that
\* goes on: the renderer reads it next.
C28_Witness ==
    /\ last = "kill" /\ killed = <<>> /\ panic = ""
    /\ \E i \in DOMAIN ships, j \in DOMAIN old.ships :
          /\ ships[i].goal.kind = "Hunt"
          /\ old.ships[j].id = ships[i].id
          /\ old.ships[j].goal.kind = "Hunt"
          /\ ships[i].goal.prey = old.ships[j].goal.prey - 1
          /\ ships[ships[i].goal.prey].id = old.ships[old.ships[j].goal.prey].id

\* The prey of the last update carried cargo when the pirate looked at it
PreyHadCargo == old.ships[Prey].job = Trader(TRUE)

\* C29: in the tick in which a hunting pirate finds its cargo-carrying prey
\* within raid range, the prey's speed is set to its initial speed and the
\* Hunt progress increases by exactly one; the progress of a Hunt never
\* changes when the prey is out of range or has no cargo; and the raid
\* completes only when the progress read at the start of the update is
\* strictly greater than raid_duration.
C29_RaidProgress ==
    HuntStepped =>
        /\ (PreyHadCargo /\ PreyInRange) =>
              /\ ships[Prey].speed = old.ships[Prey].initial_speed
              /\ ~complete => After.goal = Hunt(Prey, Before.goal.progress + 1)
        /\ (~PreyHadCargo \/ ~PreyInRange) =>
              (After.goal.kind = "Hunt" => After.goal.progress = Before.goal.progress)
        /\ (PreyHadCargo /\ complete) =>
              (PreyInRange /\ Before.goal.progress > config.raid_duration)
        /\ (PreyHadCargo /\ PreyInRange /\ Before.goal.progress > config.raid_duration)
              => complete

\* A raid goes on: the prey had gained speed and is set back, the progress
\* equals the duration and grows by one.
C29_Witness ==
    /\ HuntStepped /\ PreyHadCargo /\ PreyInRange /\ ~complete
    /\ old.ships[Prey].speed > old.ships[Prey].initial_speed
    /\ Before.goal.progress = config.raid_duration
    /\ After.goal.progress = Before.goal.progress + 1

\* C30: while a pirate's goal is Hunt it follows the movement law of Visit:
\* every tick it moves toward the prey's current position and its speed is
\* multiplied by the acceleration factor.
C30_HuntAccelerates ==
    HuntStepped =>
        /\ After.pos = update_ship_pos(Before, old.ships[Prey].pos).pos
        /\ After.speed = Before.speed * config.ship_acceleration

\* C31: a ship with goal Visit multiplies its speed by the acceleration
\* factor in every tick without arrival and has its initial speed at the
\* end of the update in which it arrives; the initial speed of a ship never
\* changes, and with an acceleration factor of at least 1 the speed is
\* never below the initial speed.
C31_VisitSpeed ==
    /\ (ShipStepped /\ Before.goal.kind = "Visit" /\ panic = "") =>
          /\ ~complete => After.speed = Before.speed * config.ship_acceleration
          /\ complete => After.speed = Before.initial_speed
    /\ \A i \in DOMAIN ships :
          /\ ships[i].initial_speed = config.ship_speed
          /\ config.ship_acceleration >= 1 => ships[i].speed >= ships[i].initial_speed

\* A ship that had gained speed arrives and is set back.
C31_Witness ==
    /\ ShipStepped /\ Before.goal.kind = "Visit" /\ panic = "" /\ complete
    /\ Before.speed > Before.initial_speed
    /\ After.speed = Before.initial_speed

\* The last step was the update of a ship whose goal was Wait
WaitStepped == ShipStepped /\ Before.goal.kind = "Wait"

\* C32: while a miner's goal is Wait{target, progress}, each tick sets the
\* ship's position to the target body's current position and increases
\* progress by exactly one without changing target; the miner leaves Wait
\* in the tick in which the progress read at the start of its update equals
\* harvest_duration, and in no other tick.
C32_WaitLaw ==
    WaitStepped =>
        /\ After.pos = system[Before.goal.target].pos
        /\ complete <=> Before.goal.progress = config.harvest_duration
        /\ complete => After.goal.kind # "Wait"
        /\ ~complete => After.goal = Wait(Before.goal.target,
                                          Before.goal.progress + 1)

\* The last step was the arrival of a trader that left with cargo
PickedUp == TraderDone /\ panic = "" /\ After.job.cargo

\* The stations the spawn step took the price of a ship from
Charged == {p \in DOMAIN system : system[p].stock # old.system[p].stock}

\* C33 (as the code has it): station stock never underflows.  The spawn
\* step subtracts ship_cost only from a stock greater than ship_cost, which
\* leaves at least 1; a pick-up subtracts one only from a stock greater
\* than the destination's stock, which leaves at least the destination's
\* stock, possibly 0.  Stock is non-negative in every reachable state.
C33_StockNeverUnderflows ==
    /\ \A p \in DOMAIN system : system[p].stock >= 0
    /\ last = "spawn" =>
          \A p \in Charged :
              /\ old.system[p].stock > config.ship_cost
              /\ system[p].stock = old.system[p].stock - config.ship_cost
              /\ system[p].stock >= 1
    /\ PickedUp =>
          /\ AfterDeposit >= 1
          /\ system[Before.goal.target].stock = AfterDeposit - 1
          /\ system[Before.goal.target].stock >= system[After.goal.target].stock

\* A pick-up that takes the last unit of a station
C33_Witness ==
    /\ PickedUp
    /\ old.system[Before.goal.target].stock = 1
    /\ system[Before.goal.target].stock = 0

\* C33 (as stated): stock is non-negative in every reachable state and is
\* at least 1 immediately after a spawn or a pick-up.
C33_AtLeastOneAfterDecrement ==
    /\ \A p \in DOMAIN system : system[p].stock >= 0
    /\ last = "spawn" => \A p \in Charged : system[p].stock >= 1
    /\ PickedUp => system[Before.goal.target].stock >= 1

\* The last step was a ship update that pushed onto the kill list
Pushed == ShipStepped /\ Len(killed) > Len(old.killed)

\* C34: the kill list never contains the same index twice, every index in
\* it refers to a Trader at the time it is pushed, and the list is empty
\* when Sim::update returns, hence at the start of every tick.
C34_KillList ==
    /\ \A a, b \in DOMAIN killed : a # b => killed[a] # killed[b]
    /\ Pushed =>
          /\ Len(killed) = Len(old.killed) + 1
          /\ SubSeq(killed, 1, Len(old.killed)) = old.killed
          /\ killed[Len(killed)] \in DOMAIN old.ships
          /\ old.ships[killed[Len(killed)]].job.kind = "Trader"
    /\ pc = "idle" => killed = <<>>

\* A second trader is pushed in the same pass
C34_Witness ==
    /\ Pushed /\ Len(killed) = 2
    /\ killed[1] # killed[2]
    /\ old.ships[killed[2]].job.kind = "Trader"

\* The ships of a registry in index order, by identity
IdSeq(sh) == [k \in 1..VLen(sh) |-> sh[k - 1].id]

\* s is t with some entries left out
RECURSIVE IsSubSeq(_, _)
IsSubSeq(s, t) ==
    IF s = <<>> THEN TRUE
    ELSE IF t = <<>> THEN FALSE
    ELSE IF Head(s) = Head(t) THEN IsSubSeq(Tail(s), Tail(t))
    ELSE IsSubSeq(s, Tail(t))

\* C35: during the per-ship pass of Sim::update the ship registry is never
\* structurally changed: every index denotes the same ship from the start
\* of the pass to its end, and the range of the pass is the registry.
\* Ships are appended only in the spawn step and removed only in the
\* removal step.
C35_RegistryStable ==
    /\ last = "ship" => IdSeq(ships) = IdSeq(old.ships)
    /\ pc = "ships" => pass_len = VLen(ships)
    /\ last = "spawn" =>
          /\ Len(IdSeq(ships)) >= Len(IdSeq(old.ships))
          /\ SubSeq(IdSeq(ships), 1, Len(IdSeq(old.ships))) = IdSeq(old.ships)
    /\ last = "kill" =>
          /\ Len(IdSeq(ships)) <= Len(IdSeq(old.ships))
          /\ IsSubSeq(IdSeq(ships), IdSeq(old.ships))
    /\ last \in {"orbit", "end"} => IdSeq(ships) = IdSeq(old.ships)

\* The last update of a pass that killed a trader: the killed ship is
\* still at its index, with later ships behind it
C35_Witness ==
    /\ last = "ship" /\ pc = "kill" /\ killed # <<>>
    /\ killed[1] < VLen(ships) - 1
    /\ IdSeq(ships) = IdSeq(old.ships)

\* The last step was update_planet_pos(0)
OrbitStepped == last = "orbit"

\* C36: in one call of update_planet_pos(0) every body with an orbit is
\* updated exactly once and after its orbit parent, so that at the end of
\* the orbit phase the angle of every non-sun body has advanced by one
\* step and its position equals its parent's position of the current tick
\* offset by its orbit distance along its current angle.
C36_OrbitPhase ==
    OrbitStepped =>
        /\ DOMAIN system = DOMAIN old.system
        /\ system[0] = old.system[0]
        /\ \A i \in DOMAIN system \ {0} :
              LET before == old.system[i].orbit
                  orbit == system[i].orbit
                  parent == system[orbit.parent_index]
              IN  /\ orbit = [before EXCEPT
                                 !.angle = Rem(before.angle + Offset(old.system, before), TAU)]
                  /\ system[i].pos = <<parent.pos[1] + orbit.dist * Cos(orbit.angle),
                                       parent.pos[2] + orbit.dist * Sin(orbit.angle)>>

\* A moon has followed its planet, which moved in the same call
C36_Witness ==
    /\ OrbitStepped /\ tick >= 2
    /\ \E i \in DOMAIN system \ {0} :
          LET parent_index == system[i].orbit.parent_index
          IN  /\ parent_index # 0
              /\ system[parent_index].pos # old.system[parent_index].pos
              /\ system[i].pos # old.system[i].pos

\* The planet loop of Sim::new has ended
LoopEnded == pc \in {"new", "idle", "panic"}

\* The occupied radius of the sun with the first k of its planets
PlacedBefore(sys, k) ==
    total_rad([sys EXCEPT ![0].moon_indices = [j \in 0..(k - 1) |-> @[j]]], 0)

\* No planet subsystem reaches into what was placed before it
Apart(sys) ==
    \A k \in DOMAIN sys[0].moon_indices :
        LET pl_index == sys[0].moon_indices[k]
        IN  sys[pl_index].orbit.dist - total_rad(sys, pl_index) >= PlacedBefore(sys, k)

\* A rejected subsystem is removed whole and ends the loop
RejectedWhole ==
    last = "reject" =>
        /\ pc = "new"
        /\ system = [i \in 0..(CurrentPlanet(old.system) - 1) |-> old.system[i]]

\* C37: generated planet subsystems do not overlap and stay inside the
\* configured radius: the orbit distance of every planet of the sun minus
\* the occupied radius of its subsystem is at least the occupied radius of
\* everything placed before it, the occupied radius of the whole tree
\* (Sim.system_rad) is not greater than config.system_rad, and a rejected
\* subsystem is removed with all its moons and ends the loop.
C37_SubsystemsFit ==
    /\ LoopEnded => Apart(system)
    /\ LoopEnded => total_rad(system, 0) <= config.system_rad
    /\ RejectedWhole

\* An accepted subsystem has enlarged the occupied radius of the tree
AcceptGrows ==
    last = "accept" => total_rad(system, 0) > total_rad(old.system, 0)

\* A moon was added only below five times the planet's radius, and has
\* enlarged the occupied radius of its planet
MoonBounded ==
    last = "moon" =>
        LET pl_index == CurrentPlanet(system)
        IN  /\ total_rad(old.system, pl_index) < 5 * system[pl_index].rad
            /\ total_rad(system, pl_index) > total_rad(old.system, pl_index)

====
